---- MODULE Spec2Model ----
(***************************************************************************)
(* Sentinel: the verification engine (quick_check, free_space_sweep,       *)
(* build_manifest, verify_manifest, full_sweep), its host API and the UI   *)
(* handlers that start an operation and record its completion.             *)
(*                                                                         *)
(* Byte quantities are counted in units of 512 bytes: TLC integers are 32  *)
(* bit and MAX_FILE_BYTES alone is 2^31 bytes.  Drive usage and the        *)
(* requested fractions are chosen so that every size the code computes is  *)
(* a whole number of units.                                                *)
(***************************************************************************)
EXTENDS Integers, Sequences, FiniteSets, TLC

\* ------------------------------------------------------------------ bounds
MaxPlanN == 12      \* planner inputs N in 0..MaxPlanN
MaxPlanM == 4       \* planner inputs M in 1..MaxPlanM
MaxBatches == 2     \* drives offer 1..MaxBatches batches of free space
MaxClock == 1       \* the wall clock reads 0..MaxClock
MaxInterval == 2    \* sweep intervals 0..MaxInterval days
MaxOps == 1         \* operations started in one behaviour
MaxRuns == 2        \* calls of a host that calls quick_check in sequence

\* --------------------------------------------------------- program constants
MIN_SIZE_BYTES == 1024                                       \* bytes
UnitBytes == MIN_SIZE_BYTES \div 2                          \* bytes per unit
SAFETY_MARGIN_BYTES == 100 * 1024 * (1024 \div UnitBytes)    \* 100 MiB, in units
MAX_FILE_BYTES == 2 * 1024 * 1024 * (1024 \div UnitBytes)    \* 2 GiB, in units
MinSize == MIN_SIZE_BYTES \div UnitBytes                     \* 1 KiB, in units
GiB == 1024 * 1024 * (1024 \div UnitBytes)
MiB == 1024 * (1024 \div UnitBytes)

Min(a, b) == IF a < b THEN a ELSE b
Max(a, b) == IF a > b THEN a ELSE b

RECURSIVE SumSeq(_)
SumSeq(s) == IF s = <<>> THEN 0 ELSE Head(s) + SumSeq(Tail(s))

\* sum(batch_sizes[i] for i in range(n))
SumFirst(s, n) == SumSeq(SubSeq(s, 1, n))

\* Python round(num / den) for num >= 0, den > 0: ties go to the even integer
PyRound(num, den) ==
    LET q == num \div den
        r == num % den
    IN  IF 2 * r < den THEN q
        ELSE IF 2 * r > den THEN q + 1
        ELSE IF q % 2 = 0 THEN q ELSE q + 1

\* ------------------------------------------------------------ batch planner
\* One iteration of `while remaining > 0` (st = [remaining, batch_sizes])
PlanBodyNoMin(st, M) ==
    [batch_sizes |-> Append(st.batch_sizes, M),
     remaining   |-> st.remaining - M]

PlanBody(st, M) ==
    LET b == Min(st.remaining, M)
    IN  [batch_sizes |-> Append(st.batch_sizes, b),
         remaining   |-> st.remaining - b]

RECURSIVE PlanLoop(_, _)
PlanLoop(st, M) == IF st.remaining > 0 THEN PlanLoop(PlanBody(st, M), M) ELSE st

\* batch_sizes as computed by quick_check and free_space_sweep
BatchSizes(size_bytes) ==
    PlanLoop([batch_sizes |-> <<>>, remaining |-> size_bytes], MAX_FILE_BYTES).batch_sizes


\* ------------------------------------------------------------------- state
VARIABLES
    planner,              \* the batch-splitting loop run on its own: [N, M, remaining, batch_sizes, done]
    mounts,               \* cards, drive letters and the host's manifests directory, on their own
    runs,                 \* what each quick_check call of a host that calls it twice left
    now,                  \* reading of datetime.now()
    files,                \* the drive's real files: path -> content hash, or "absent"
    marker,               \* <drive>/Sentinel/.last_sweep: [present, text, ts]
    manifest_store,       \* host-side manifests/<letter>.json: [exists, entries]
    config,               \* host-side sentinel_config.json
    temp_dir,             \* the temp directory of the running (or last) operation exists
    test_files,           \* batch indexes i whose test_<i>.bin exists in it
    operation_running,    \* SentinelUI.operation_running
    workers,              \* worker threads started whose completion the UI has not handled
    abort_requested,      \* SentinelUI._abort_requested / what the host's abort_check() returns
    caller,               \* "none", "ui", "api"
    op,                   \* "none", "quick_check", "full_sweep"
    pc,                   \* position of the worker
    usage,                \* get_drive_usage(drive): [total, free]
    size_fraction,        \* quick_check's size_fraction, in percent
    size_bytes,           \* size_bytes / usable_bytes of the batch loop
    batch_sizes,
    batch_i,
    verification_details,
    h1,                   \* read1 hash of the batch in progress
    cycle_result,         \* dict returned by quick_check / free_space_sweep
    sweep,                \* locals of full_sweep, build_manifest, verify_manifest
    sweep_result,         \* dict returned by full_sweep
    hist                  \* history of the running (or last) operation

vars == <<planner, mounts, runs, now, files, marker, manifest_store, config, temp_dir, test_files,
          operation_running, workers, abort_requested, caller, op, pc, usage,
          size_fraction,
          size_bytes, batch_sizes, batch_i, verification_details, h1, cycle_result,
          sweep, sweep_result, hist>>

aloneVars == <<planner, mounts, runs>>
driveVars == <<files, marker, temp_dir, test_files>>
hostVars == <<manifest_store, config>>
uiVars == <<operation_running, workers, abort_requested>>
cycleVars == <<size_bytes, batch_sizes, batch_i, verification_details, h1, cycle_result>>
sweepVars == <<sweep, sweep_result>>


\* -------------------------------------------------------------------- data
Drive == "G:"
Paths == {"photo.jpg", "notes.txt", "Sentinel.txt", "SentinelData/a.bin"}
\* enumeration order of root.rglob("*")
PathOrder == <<"photo.jpg", "notes.txt", "Sentinel.txt", "SentinelData/a.bin">>
\* the contents a path may have over time; photo.jpg is edited and deleted by the user
Contents(p) == IF p = "photo.jpg" THEN {"absent", "H1", "H2"} ELSE {"H1"}
FileStates == {f \in [Paths -> {"absent", "H1", "H2"}] : \A p \in Paths : f[p] \in Contents(p)}

\* what shutil.disk_usage reports: a nearly full card, and cards with
\* 1..MaxBatches batches of usable free space (the last batch half the maximum)
DriveUsages ==
    {[total |-> 80 * GiB, free |-> 50 * MiB]}
    \cup {[total |-> 80 * GiB,
           free  |-> SAFETY_MARGIN_BYTES + k * MAX_FILE_BYTES - (MAX_FILE_BYTES \div 2)] :
              k \in 1..MaxBatches}
NoUsage == [total |-> 0, free |-> 0]
Fractions == {5, 10}

WriteErrors == {"ENOSPC"}
ReadErrors == {"EIO"}

\* a generator that is not seeded with the batch index: every call of an
\* engine plans other content
ExpectedHashUnseeded(i, fsize) ==
    [kind |-> "sha256", seed |-> i + 100 * (Len(runs) + 1), len |-> fsize]

\* sha256 of random.Random(batch_i).randbytes(fsize), written in chunks
ExpectedHash(i, fsize) == [kind |-> "sha256", seed |-> i, len |-> fsize]
NoneHash == [kind |-> "None", seed |-> 0, len |-> 0]
\* digests of file content that differs from what was written
CorruptHashes == {[kind |-> "corrupt", seed |-> k, len |-> 0] : k \in 1..2}
ReadHashes(expected) == {expected} \cup CorruptHashes

NoTime == [set |-> FALSE, ts |-> 0]
Time(t) == [set |-> TRUE, ts |-> t]

MarkerAbsent == [present |-> FALSE, parseable |-> FALSE, ts |-> 0]
MarkerTruncated == [present |-> TRUE, parseable |-> FALSE, ts |-> 0]
\* path.write_text(datetime.now().isoformat())
MarkerWritten(t) == [present |-> TRUE, parseable |-> TRUE, ts |-> t]
\* a card never swept, or one swept at time 0
InitMarkers == {MarkerAbsent, MarkerWritten(0)}

NoManifest == [exists |-> FALSE, entries |-> <<>>]
\* a host that has never swept the drive, or one whose earlier sweep built the
\* manifest when both files held H1
InitManifests ==
    {NoManifest,
     [exists |-> TRUE, entries |-> <<[path |-> "photo.jpg", hash |-> "H1"],
                                     [path |-> "notes.txt", hash |-> "H1"]>>]}

NoConfig == [exists |-> FALSE, last_drive |-> "None",
             last_check_time |-> NoTime, last_sweep_time |-> NoTime]

Details(text, batch, err) == [text |-> text, batch |-> batch, err |-> err]
NoDetails == Details("", 0, "")

\* a record numbered by the loop index, from 0
RecordZeroBased(batch, expected, r1, r2, match) ==
    [batch |-> batch - 1, expected_hash |-> expected, read1_hash |-> r1,
     read2_hash |-> r2, match |-> match]

\* verification_details.append({"batch": batch_i + 1, ...})
Record(batch, expected, r1, r2, match) ==
    [batch |-> batch, expected_hash |-> expected, read1_hash |-> r1,
     read2_hash |-> r2, match |-> match]

\* a result dict of quick_check / free_space_sweep; a key that is not in the
\* dict reads as result.get(key) does: aborted FALSE, the counts 0
PlainResult(passed, message, details, vd) ==
    [passed |-> passed, message |-> message, details |-> details,
     verification_details |-> vd, aborted |-> FALSE,
     batches_completed |-> 0, batches_total |-> 0, bytes_tested |-> 0,
     bytes_total |-> 0, extrapolated_confidence_pct |-> 0]
NoCycleResult == PlainResult(FALSE, "", NoDetails, <<>>)

FailMessage(o) == IF o = "quick_check" THEN "Integrity check failed"
                  ELSE "Free-space sweep failed"
PassMessage(o) == IF o = "quick_check" THEN "Integrity check passed"
                  ELSE "Free-space sweep passed"
AbortMessage(o) == IF o = "quick_check" THEN "Check aborted by user"
                   ELSE "Free-space sweep aborted by user"
NoSpaceText(o) == IF o = "quick_check"
                  THEN "Not enough free space for check (need at least 100 MB free)."
                  ELSE "Not enough free space (need at least 100 MB free)."

NoSweep == [all_files |-> <<>>, entries |-> <<>>, idx |-> 0, m |-> <<>>,
            paths |-> <<>>, mismatches |-> <<>>, manifest_vd |-> <<>>, parts |-> <<>>]

NoSweepResult ==
    [passed |-> FALSE, message |-> "", details |-> "", manifest_passed |-> FALSE,
     free_space_passed |-> FALSE, vd_manifest |-> <<>>, vd_free_space |-> <<>>,
     aborted |-> FALSE]

\* where an operation stood when abort was requested: the batches it had begun
\* (polls passed) and the files of the manifest phase it had begun
NoAbort == [requested |-> FALSE, batches |-> 0, files |-> 0]

\* history: who ran what and how the call ended ("returned", "raised"), where it
\* stood when abort was requested, the
\* persistent state when it started, the marker writes, and the engine's steps
\* (phase callbacks, mkdir, polls, writes, reads, cleanup) in order
NoHist == [ops |-> 0, op |-> "none", caller |-> "none", ended |-> "", start |-> 0,
           marker0 |-> MarkerAbsent, config0 |-> NoConfig, manifest0 |-> NoManifest,
           marker_writes |-> 0, log |-> <<>>, abort_at |-> NoAbort]
Ev(step, batch) == [step |-> step, batch |-> batch]


\* ------------------------------------------------------------------- config
\* load_config: the defaults when the file does not exist
LoadConfig(cfg) == IF cfg.exists THEN cfg ELSE NoConfig

\* save_config: only the arguments that are not None are updated
SaveConfig(cfg, last_drive, last_check_time, last_sweep_time) ==
    LET current == LoadConfig(cfg)
    IN  [exists |-> TRUE,
         last_drive |-> IF last_drive # "None" THEN last_drive ELSE current.last_drive,
         last_check_time |-> IF last_check_time # NoTime THEN last_check_time
                             ELSE current.last_check_time,
         last_sweep_time |-> IF last_sweep_time # NoTime THEN last_sweep_time
                             ELSE current.last_sweep_time]

SMALL_BYTES == 32 * GiB
\* recommend_check_size_fraction, in percent
RecommendCheckSizeFraction(total) == IF total < SMALL_BYTES THEN 5 ELSE 10

\* --------------------------------------------------------------------- Init
InitProgram ==
    /\ runs = <<>>
    /\ now = 0
    /\ config = NoConfig
    /\ temp_dir = FALSE
    /\ test_files = {}
    /\ operation_running = FALSE
    /\ workers = 0
    /\ abort_requested = FALSE
    /\ caller = "none"
    /\ op = "none"
    /\ pc = "idle"
    /\ usage = NoUsage
    /\ size_fraction = 0
    /\ size_bytes = 0
    /\ batch_sizes = <<>>
    /\ batch_i = 0
    /\ verification_details = <<>>
    /\ h1 = NoneHash
    /\ cycle_result = NoCycleResult
    /\ sweep = NoSweep
    /\ sweep_result = NoSweepResult
    /\ hist = NoHist

NoPlanner == [N |-> 0, M |-> 1, remaining |-> 0, batch_sizes |-> <<>>, done |-> TRUE]

\* ------------------------------------------------------ manifest file names
\* strings whose characters the code looks at are held as sequences of characters
Remove(s, c) == SelectSeq(s, LAMBDA x : x # c)

\* str.upper() on the letters that occur
UpperChar(c) == CASE c = "g" -> "G" [] c = "h" -> "H" [] OTHER -> c
Upper(s) == [i \in 1..Len(s) |-> UpperChar(s[i])]

\* the drive-root spellings a caller may pass: "G:\\", "g:" and "H:\\"
Roots == {<<"G", ":", "\\">>, <<"g", ":">>, <<"H", ":", "\\">>}

\* letter = drive_root.replace("\\", "").replace(":", "").upper() or "UNKNOWN";
\* the manifest file is manifests/<letter>.json
ManifestKey(drive_root) ==
    LET letter == Upper(Remove(Remove(drive_root, "\\"), ":"))
    IN  IF letter = <<>> THEN <<"UNKNOWN">> ELSE letter

\* the drive letter Windows resolves a root to
Letter(drive_root) == UpperChar(drive_root[1])
Letters == {Letter(r) : r \in Roots}

ManifestKeys == {ManifestKey(r) : r \in Roots}

\* two cards; what the host keeps of a card is the manifest built from its files
Cards == {"cardA", "cardB"}
\* the last sweep: the root it was given, the card it ran on, whether a manifest
\* of that card was stored before it, and the card whose manifest it loaded
NoMountSweep == [root |-> <<>>, card |-> "none", had |-> FALSE, loaded |-> "none"]
\* no card inserted, no manifest file, no sweep yet
NoMounts == [at |-> [l \in Letters |-> "none"],
             manifests |-> [k \in ManifestKeys |-> "none"],
             sweep |-> NoMountSweep]

Init ==
    /\ InitProgram
    /\ files \in FileStates
    /\ marker \in InitMarkers
    /\ manifest_store \in InitManifests
    /\ planner = NoPlanner
    /\ mounts = NoMounts

\* ---------------------------------------------------- last sweep time, due
\* read_last_sweep_timestamp: None when the marker file is missing, cannot be
\* read or does not parse
ReadLastSweepTimestamp(m) ==
    IF m.present /\ m.parseable THEN Time(m.ts) ELSE NoTime

\* api.get_last_sweep_time(drive): the card's timestamp, else the config's
GetLastSweepTimeHostFirst(m, cfg) ==
    IF LoadConfig(cfg).last_sweep_time # NoTime THEN LoadConfig(cfg).last_sweep_time
    ELSE ReadLastSweepTimestamp(m)

GetLastSweepTime(m, cfg) ==
    LET ts == ReadLastSweepTimestamp(m)
    IN  IF ts # NoTime THEN ts ELSE LoadConfig(cfg).last_sweep_time

\* sweep_due(drive_root, interval_days) called when datetime.now() reads t; clock
\* readings are counted in days, so (datetime.now() - last).days is t - last
SweepDueStrictlyLater(m, t, interval_days) ==
    LET last == ReadLastSweepTimestamp(m)
    IN  IF last = NoTime THEN TRUE ELSE (t - last.ts) > interval_days

SweepDue(m, t, interval_days) ==
    LET last == ReadLastSweepTimestamp(m)
    IN  IF last = NoTime THEN TRUE ELSE (t - last.ts) >= interval_days

\* ------------------------------------------------------- starting an operation
\* the state a new operation starts from
StartHist(o, c, t) ==
    [ops |-> hist.ops + 1, op |-> o, caller |-> c, ended |-> "", start |-> t,
     marker0 |-> marker,
     config0 |-> config, manifest0 |-> manifest_store, marker_writes |-> 0, log |-> <<>>,
     abort_at |-> NoAbort]

\* datetime.now(): the wall clock, taken not to run backwards, so a read returns
\* a time not before the last one read
ClockRead == now..MaxClock

BeginOn(o, c, entry, drives) ==
    /\ caller = "none"
    /\ pc = "idle"
    /\ hist.op = "none"
    /\ hist.ops < MaxOps
    /\ caller' = c
    /\ op' = o
    /\ pc' = entry
    /\ \E t \in ClockRead :
         /\ now' = t
         /\ hist' = StartHist(o, c, t)
    /\ \E f \in drives : files' = f  \* the drive's files as the user left them
    /\ temp_dir' = FALSE
    /\ test_files' = {}
    /\ size_bytes' = 0
    /\ batch_sizes' = <<>>
    /\ batch_i' = 0
    /\ verification_details' = <<>>
    /\ h1' = NoneHash
    /\ cycle_result' = NoCycleResult
    /\ sweep' = NoSweep
    /\ sweep_result' = NoSweepResult
    /\ UNCHANGED <<aloneVars, marker, manifest_store, config>>

Begin(o, c, entry) == BeginOn(o, c, entry, FileStates)

\* `if self.operation_running: return` at the head of both click handlers
ClickStartsAlways(running) == TRUE

ClickStarts(running) == ~running

\* SentinelUI._on_quick_check_click and _start_quick_check
OnQuickCheckClick ==
    /\ ClickStarts(operation_running)
    /\ Begin("quick_check", "ui", "qc_entry")
    /\ \E u \in DriveUsages :
         /\ usage' = u
         /\ size_fraction' = RecommendCheckSizeFraction(u.total)
    /\ operation_running' = TRUE
    /\ workers' = workers + 1
    /\ abort_requested' = FALSE

\* _on_quick_check_click or _on_full_sweep_click while a worker started by the UI
\* has not been completed: the handler returns at its first line; were it to go
\* on, _start_quick_check / _start_full_sweep would start one more thread
OnClickWhileRunning ==
    /\ caller = "ui"
    /\ pc # "idle"
    /\ IF ClickStarts(operation_running)
       THEN /\ operation_running' = TRUE
            /\ workers' = workers + 1
            /\ abort_requested' = FALSE
       ELSE UNCHANGED uiVars
    /\ UNCHANGED <<aloneVars, now, driveVars, hostVars, caller, op, pc, usage,
                   size_fraction, cycleVars, sweepVars, hist>>

\* api.run_quick_check
ApiRunQuickCheck ==
    /\ Begin("quick_check", "api", "qc_entry")
    /\ \E u \in DriveUsages :
         /\ usage' = u
         /\ \E f \in Fractions \cup {RecommendCheckSizeFraction(u.total)} :
              size_fraction' = f
    /\ abort_requested' = FALSE
    /\ UNCHANGED <<operation_running, workers>>

\* abort_check(): the UI's `lambda: self._abort_requested`, or the host's callable
AbortCheckNever(flag) == FALSE

AbortCheck(flag) == flag

\* the positions from which abort_check can still be polled
PollingPcs == {"qc_entry", "fs_entry", "build", "verify", "fsw_entry",
               "poll", "write", "read1", "read2"}

\* SentinelUI._on_abort_click (the button is enabled while an operation runs);
\* for an API caller, the host's abort_check starts to return True. A request made
\* after the last poll is read by nobody: the completion handler resets the flag.
RequestAbort ==
    /\ caller # "none"
    /\ pc \in PollingPcs
    /\ caller = "ui" => operation_running
    /\ ~abort_requested
    /\ abort_requested' = TRUE
    /\ hist' = [hist EXCEPT !.abort_at =
                    [requested |-> TRUE,
                     batches |-> Cardinality({k \in 1..Len(hist.log) :
                                                hist.log[k].step = "poll"}),
                     files |-> sweep.idx]]
    /\ UNCHANGED <<aloneVars, now, driveVars, hostVars, operation_running, workers, caller,
                   op, pc, usage, size_fraction, cycleVars, sweepVars>>

\* ------------------------------------------- write / verify cycle (both engines)
\* "quick_check" or "free_space_sweep": the function whose batch loop is running
Engine == IF op = "quick_check" THEN "quick_check" ELSE "free_space_sweep"
\* where the engine's return value goes
ReturnPc == IF op = "quick_check" THEN "returned" ELSE "fs_after"

MkdirErrors == {"EACCES"}

\* where a `return` (or the end) inside try ... finally goes: the finally block
AfterReturnSkipsFinally == ReturnPc

AfterReturnInTry == "cleanup"

Logged(step) == [hist EXCEPT !.log = Append(@, Ev(step, batch_i))]

\* ------------------------------------------------------------ progress reports
\* what progress_callback(current, total, message) is given
Report(current, total) == [current |-> current, total |-> total]

\* build_manifest: progress_callback(i, max(total, 1), ...); verify_manifest:
\* progress_callback(i, total, ...) with total = max(len(entries), 1)
ManifestReport(i, n) == Report(i, Max(n, 1))

\* the three reports of one batch: write, read 1, read 2
StepIndex(step) ==
    CASE step = "write" -> 0
      [] step = "read1" -> 1
      [] step = "read2" -> 2

\* progress_callback(batch_i * 3 + k, total_steps, ...), total_steps = num_batches * 3
BatchReportWithinBatch(step, b, num_batches) == Report(StepIndex(step), num_batches * 3)

BatchReport(step, b, num_batches) == Report(b * 3 + StepIndex(step), num_batches * 3)

\* progress_callback(total_steps, total_steps, "Cleaning up…") after the loop
CleaningUpReport(num_batches) == Report(num_batches * 3, num_batches * 3)

\* usable_bytes = max(0, free_bytes_d - SAFETY_MARGIN_BYTES)
UsableBytesNoMargin(free) == Max(0, free)

UsableBytes(free) == Max(0, free - SAFETY_MARGIN_BYTES)

\* target_bytes = int(size_fraction * total_bytes_d), size_fraction in percent
TargetBytes(fraction, total) == (fraction * total) \div 100

\* `if size_bytes < 1024` / `if usable_bytes < 1024`
BelowFloorZeroOnly(size) == size <= 0

BelowFloor(size) == size < MinSize

\* core.py 47-79 / sweep.py 187-217: the floor, the batch plan, the temp directory
CycleEntry(size, h) ==
    /\ size_bytes' = size
    /\ batch_i' = 0
    /\ verification_details' = <<>>
    /\ h1' = NoneHash
    /\ test_files' = {}
    /\ IF BelowFloor(size)
       THEN /\ cycle_result' = PlainResult(FALSE, FailMessage(Engine),
                                           Details(NoSpaceText(Engine), 0, ""), <<>>)
            /\ batch_sizes' = <<>>
            /\ temp_dir' = FALSE
            /\ hist' = h
            /\ pc' = ReturnPc
       ELSE /\ batch_sizes' = BatchSizes(size)
            /\ \/ /\ temp_dir' = TRUE
                  /\ cycle_result' = NoCycleResult
                  /\ hist' = [h EXCEPT !.log = Append(@, Ev("mkdir", 0))]
                  /\ pc' = "poll"
               \/ \E e \in MkdirErrors :
                  /\ temp_dir' = FALSE
                  /\ hist' = h
                  /\ cycle_result' = PlainResult(FALSE, FailMessage(Engine),
                                         Details("Could not create test directory", 0, e), <<>>)
                  /\ pc' = ReturnPc

\* quick_check, lines 42-79
QuickCheckEntry ==
    /\ pc = "qc_entry"
    /\ LET target_bytes == TargetBytes(size_fraction, usage.total)
           usable_bytes == UsableBytes(usage.free)
       IN  CycleEntry(Min(target_bytes, usable_bytes), hist)
    /\ UNCHANGED <<aloneVars, now, files, marker, hostVars, uiVars, caller, op, usage,
                   size_fraction, sweepVars>>

\* a count that takes in the batch the poll stands before
BatchesCompletedInFlight(vd) == Len(vd) + 1

\* batches_completed = len(verification_details)
BatchesCompletedNone(vd) == 0

BatchesCompleted(vd) == Len(vd)

\* the dict returned when abort_check() returned True before a batch
AbortedResult(o, vd, sizes, size) ==
    LET batches_completed == BatchesCompleted(vd)
        bytes_tested == SumFirst(sizes, batches_completed)
        confidence_pct == IF size # 0 THEN PyRound(100 * bytes_tested, size) ELSE 0
    IN  [passed |-> \A k \in 1..Len(vd) : vd[k].match,
         message |-> AbortMessage(o),
         details |-> Details("batches completed, all passed", 0, ""),
         verification_details |-> vd,
         aborted |-> TRUE,
         batches_completed |-> batches_completed,
         batches_total |-> Len(sizes),
         bytes_tested |-> bytes_tested,
         bytes_total |-> size,
         extrapolated_confidence_pct |-> confidence_pct]

\* top of the batch loop: `if abort_check and abort_check()`
Poll ==
    /\ pc = "poll"
    /\ hist' = Logged("poll")
    /\ IF AbortCheck(abort_requested)
       THEN /\ cycle_result' = AbortedResult(Engine, verification_details, batch_sizes,
                                             size_bytes)
            /\ pc' = AfterReturnInTry
       ELSE /\ pc' = "write"
            /\ UNCHANGED cycle_result
    /\ UNCHANGED <<aloneVars, now, driveVars, hostVars, uiVars, caller, op, usage,
                   size_fraction, size_bytes, batch_sizes, batch_i, verification_details,
                   h1, sweepVars>>

Expected == ExpectedHash(batch_i, batch_sizes[batch_i + 1])

\* open(temp_path / f"test_{batch_i}.bin", "wb"): the directory after the write
FilesAfterWriteReplacing(present, i) == {i}

FilesAfterWrite(present, i) == present \cup {i}

\* `if h1 != expected_hash`: the first read fails the batch
FirstReadNeverFails(h, expected) == FALSE

FirstReadFails(h, expected) == h # expected

IOFailureWithRecord(text, e) ==
    PlainResult(FALSE, FailMessage(Engine), Details(text, batch_i + 1, e),
                Append(verification_details,
                       Record(batch_i + 1, Expected, NoneHash, NoneHash, FALSE)))

IOFailure(text, e) ==
    PlainResult(FALSE, FailMessage(Engine), Details(text, batch_i + 1, e),
                verification_details)

\* the batch is written to test_<batch_i>.bin in 64 MB chunks, or the write raises
Write ==
    /\ pc = "write"
    /\ hist' = Logged("write")
    /\ \/ /\ test_files' = FilesAfterWrite(test_files, batch_i)
          /\ pc' = "read1"
          /\ UNCHANGED cycle_result
       \/ \E e \in WriteErrors, created \in BOOLEAN :
          /\ test_files' = IF created THEN FilesAfterWrite(test_files, batch_i)
                            ELSE test_files
          /\ cycle_result' = IOFailure("Write error", e)
          /\ pc' = AfterReturnInTry
    /\ UNCHANGED <<aloneVars, now, files, marker, temp_dir, hostVars, uiVars, caller, op,
                   usage, size_fraction, size_bytes, batch_sizes, batch_i,
                   verification_details, h1, sweepVars>>

\* _hash_file_chunked, first pass, and `if h1 != expected_hash`
Read1 ==
    /\ pc = "read1"
    /\ hist' = Logged("read1")
    /\ \/ \E h \in ReadHashes(Expected) :
          /\ h1' = h
          /\ IF FirstReadFails(h, Expected)
             THEN /\ verification_details' =
                        Append(verification_details,
                               Record(batch_i + 1, Expected, h, NoneHash, FALSE))
                  /\ cycle_result' =
                        PlainResult(FALSE, FailMessage(Engine),
                                    Details("Hash mismatch (first read)", batch_i + 1, ""),
                                    verification_details')
                  /\ pc' = AfterReturnInTry
             ELSE /\ pc' = "read2"
                  /\ UNCHANGED <<verification_details, cycle_result>>
       \/ \E e \in ReadErrors :
          /\ cycle_result' = IOFailure("Read error", e)
          /\ pc' = AfterReturnInTry
          /\ UNCHANGED <<h1, verification_details>>
    /\ UNCHANGED <<aloneVars, now, driveVars, hostVars, uiVars, caller, op, usage,
                   size_fraction, size_bytes, batch_sizes, batch_i, sweepVars>>

\* match = h1 == expected_hash and h2 == expected_hash and h1 == h2
MatchFirstReadOnly(expected, r1, r2) == r1 = expected

Match(expected, r1, r2) == r1 = expected /\ r2 = expected /\ r1 = r2

\* _hash_file_chunked, second pass, the record, and the end of the loop body
Read2 ==
    /\ pc = "read2"
    /\ hist' = Logged("read2")
    /\ \/ \E h2 \in ReadHashes(Expected) :
          LET match == Match(Expected, h1, h2)
              vd == Append(verification_details,
                           Record(batch_i + 1, Expected, h1, h2, match))
          IN  /\ verification_details' = vd
              /\ IF ~match
                 THEN /\ cycle_result' =
                            PlainResult(FALSE, FailMessage(Engine),
                                Details("Hash mismatch (second read)", batch_i + 1, ""), vd)
                      /\ pc' = AfterReturnInTry
                      /\ UNCHANGED batch_i
                 ELSE IF batch_i + 1 < Len(batch_sizes)
                 THEN /\ batch_i' = batch_i + 1
                      /\ pc' = "poll"
                      /\ UNCHANGED cycle_result
                 ELSE /\ batch_i' = batch_i + 1
                      /\ cycle_result' =
                            PlainResult(TRUE, PassMessage(Engine),
                                        Details("Verified batches", Len(batch_sizes), ""), vd)
                      /\ pc' = AfterReturnInTry
       \/ \E e \in ReadErrors :
          /\ cycle_result' = IOFailure("Read error (second pass)", e)
          /\ pc' = AfterReturnInTry
          /\ UNCHANGED <<batch_i, verification_details>>
    /\ UNCHANGED <<aloneVars, now, driveVars, hostVars, uiVars, caller, op, usage,
                   size_fraction, size_bytes, batch_sizes, h1, sweepVars>>

\* finally: for f in temp_path.iterdir(): f.unlink(); temp_path.rmdir(); except OSError: pass
\* temp_path.rmdir() returned: the directory is gone
TempDirKept(present) == present

TempDirRemoved(present) == FALSE

Cleanup ==
    /\ pc = "cleanup"
    /\ \/ /\ test_files' = {}              \* every unlink and the rmdir succeed
          /\ temp_dir' = TempDirRemoved(temp_dir)
          /\ hist' = [hist EXCEPT !.log = Append(@, Ev("cleanup_done", 0))]
       \/ /\ test_files' = {}              \* the rmdir raises
          /\ temp_dir' = TRUE
          /\ hist' = [hist EXCEPT !.log = Append(@, Ev("cleanup_oserror", 0))]
       \/ \E kept \in (SUBSET test_files) \ {{}} :
          /\ test_files' = kept            \* an unlink raises: the files iterdir had
          /\ temp_dir' = TRUE              \* not yet yielded, and the directory, stay
          /\ hist' = [hist EXCEPT !.log = Append(@, Ev("cleanup_oserror", 0))]
    /\ pc' = ReturnPc
    /\ UNCHANGED <<aloneVars, now, files, marker, hostVars, uiVars, caller, op, usage,
                   size_fraction, cycleVars, sweepVars>>

\* --------------------------------------------------------------- completion
\* SentinelUI._on_quick_check_done, run on the UI thread by root.after
OnQuickCheckDone ==
    /\ pc = "returned"
    /\ caller = "ui"
    /\ op = "quick_check"
    /\ operation_running' = FALSE
    /\ workers' = workers - 1
    /\ abort_requested' = FALSE
    /\ \E t \in ClockRead :
         /\ now' = t
         /\ config' = SaveConfig(config, Drive, Time(t), NoTime)
    /\ caller' = "none"
    /\ op' = "none"
    /\ pc' = "idle"
    /\ hist' = [hist EXCEPT !.ended = "returned"]
    /\ UNCHANGED <<aloneVars, driveVars, manifest_store, usage, size_fraction,
                   cycleVars, sweepVars>>

\* run_quick_check / run_full_sweep return (or raise) to the host
ApiReturn ==
    /\ pc \in {"returned", "raised"}
    /\ caller = "api"
    /\ caller' = "none"
    /\ op' = "none"
    /\ pc' = "idle"
    /\ hist' = [hist EXCEPT !.ended = pc]
    /\ UNCHANGED <<aloneVars, now, driveVars, hostVars, uiVars, usage, size_fraction,
                   cycleVars, sweepVars>>

\* ---------------------------------------------------------------- full sweep
\* str(Path(drive_root)), character by character
RootText == <<"G", ":", "\\">>

\* SENTINEL_DIR
SentinelDirText == <<"S", "e", "n", "t", "i", "n", "e", "l">>

\* the timestamp file Sentinel/.last_sweep, a regular file of the drive when the
\* marker is present
MarkerFile == "Sentinel/.last_sweep"

\* str(p.relative_to(root)) of the drive's files, character by character
RelText(p) ==
    CASE p = "photo.jpg" -> <<"p", "h", "o", "t", "o", ".", "j", "p", "g">>
      [] p = "notes.txt" -> <<"n", "o", "t", "e", "s", ".", "t", "x", "t">>
      [] p = "Sentinel.txt" -> SentinelDirText \o <<".", "t", "x", "t">>
      [] p = "SentinelData/a.bin" ->
            SentinelDirText \o <<"D", "a", "t", "a", "\\", "a", ".", "b", "i", "n">>
      [] p = MarkerFile ->
            SentinelDirText \o <<"\\", ".", "l", "a", "s", "t", "_", "s", "w", "e", "e", "p">>

\* str(p) of a file found by root.rglob("*")
StrPath(p) == RootText \o RelText(p)

\* str(sentinel_abs), sentinel_abs = Path(drive_root) / SENTINEL_DIR
SentinelAbs == RootText \o SentinelDirText

\* s.startswith(prefix)
StartsWith(s, prefix) ==
    /\ Len(s) >= Len(prefix)
    /\ SubSeq(s, 1, Len(prefix)) = prefix

\* p.is_file() for the paths root.rglob("*") yields
IsFile(p) == IF p = MarkerFile THEN marker.present ELSE files[p] # "absent"

\* all_files of build_manifest, in rglob order
AllFiles ==
    SelectSeq(PathOrder \o <<MarkerFile>>,
              LAMBDA p : IsFile(p) /\ ~ StartsWith(StrPath(p), SentinelAbs))

\* a result dict that starts as failed
InitialSweepResultFailed ==
    [passed |-> FALSE, message |-> "Full sweep failed", details |-> <<>>,
     manifest_passed |-> TRUE, free_space_passed |-> TRUE,
     vd_manifest |-> <<>>, vd_free_space |-> <<>>, aborted |-> FALSE]

\* full_sweep, lines 359-366: `result = {"passed": True, ...}`
InitialSweepResult ==
    [passed |-> TRUE, message |-> "Full sweep passed", details |-> <<>>,
     manifest_passed |-> TRUE, free_space_passed |-> TRUE,
     vd_manifest |-> <<>>, vd_free_space |-> <<>>, aborted |-> FALSE]

\* SentinelUI._on_full_sweep_click (confirmed) and _start_full_sweep
OnFullSweepClick ==
    /\ ClickStarts(operation_running)
    /\ Begin("full_sweep", "ui", "fs_entry")
    /\ \E u \in DriveUsages : usage' = u
    /\ size_fraction' = 0
    /\ operation_running' = TRUE
    /\ workers' = workers + 1
    /\ abort_requested' = FALSE

\* api.run_full_sweep
ApiRunFullSweep ==
    /\ Begin("full_sweep", "api", "fs_entry")
    /\ \E u \in DriveUsages : usage' = u
    /\ size_fraction' = 0
    /\ abort_requested' = FALSE
    /\ UNCHANGED <<operation_running, workers>>

\* the callable full_sweep receives as manifest_callback: api.run_full_sweep
\* passes the caller's progress_callback, the UI a function of its own
PhaseCallbackOf(c) == IF c = "api" THEN "progress_callback" ELSE "phase_label"

\* manifest_callback(phase), progress_callback(current, total, message): the
\* argument lists
PhaseCallArgs(phase) == <<phase>>
ReportArgs(r, message) == <<r.current, r.total, message>>

\* the phase full_sweep announces first: build when load_manifest gave None
ManifestPhaseAlwaysBuild(store) == "build_manifest"

ManifestPhase(store) ==
    IF ~store.exists THEN "build_manifest" ELSE "verify_manifest"

\* a load_manifest that finds nothing whatever the host has stored
ManifestIsNoneAlways(store) == TRUE

\* `manifest = load_manifest(drive_root)` and `if manifest is None`
ManifestIsNone(store) == ~store.exists

\* full_sweep, lines 359-376 and 389-392: the result, load_manifest, the phase callback
FullSweepEntry ==
    /\ pc = "fs_entry"
    /\ sweep_result' = InitialSweepResult
    /\ hist' = [hist EXCEPT !.log = Append(@, Ev(ManifestPhase(manifest_store), 0))]
    /\ IF ManifestIsNone(manifest_store)
       THEN /\ sweep' = [NoSweep EXCEPT !.all_files = AllFiles]
            /\ pc' = "build"
       ELSE /\ sweep' = [NoSweep EXCEPT !.entries = manifest_store.entries]
            /\ pc' = "verify"
    /\ UNCHANGED <<aloneVars, now, driveVars, hostVars, uiVars, caller, op, usage,
                   size_fraction, cycleVars>>

\* manifest[rel] = _hash_file_chunked(p, WRITE_CHUNK_BYTES)
ManifestEntryWithoutHash(p, h) == [path |-> p, hash |-> "None"]

ManifestEntry(p, h) == [path |-> p, hash |-> h]

\* build_manifest: one iteration of `for i, p in enumerate(all_files)`
BuildStep ==
    /\ pc = "build"
    /\ sweep.idx < Len(sweep.all_files)
    /\ IF AbortCheck(abort_requested)
       THEN /\ sweep_result' = [sweep_result EXCEPT
                                   !.aborted = TRUE,
                                   !.message = "Full sweep aborted",
                                   !.details = <<"Manifest build aborted",
                                                 "No manifest saved; no timestamp written.">>,
                                   !.vd_manifest = <<>>]
            /\ pc' = "returned"
            /\ UNCHANGED sweep
       ELSE /\ LET p == sweep.all_files[sweep.idx + 1]
               IN  \/ sweep' = [sweep EXCEPT
                                   !.m = Append(@, ManifestEntry(p, files[p])),
                                   !.paths = Append(@, p),
                                   !.idx = @ + 1]
                   \/ sweep' = [sweep EXCEPT !.idx = @ + 1]     \* OSError: skipped
            /\ UNCHANGED <<pc, sweep_result>>
    /\ UNCHANGED <<aloneVars, now, driveVars, hostVars, uiVars, caller, op, usage,
                   size_fraction, cycleVars, hist>>

\* `for i, p in enumerate(all_files)` is exhausted
BuildCompleteAnytime(sw) == TRUE

BuildComplete(sw) == sw.idx = Len(sw.all_files)

\* save_manifest(drive_root, m): the host-side manifest file afterwards
SaveManifestNotPersisted(store, m) == store

SaveManifest(store, m) == [exists |-> TRUE, entries |-> m]

\* build_manifest returned aborted=False: save_manifest, then on to the free space
BuildDone ==
    /\ pc = "build"
    /\ BuildComplete(sweep)
    /\ manifest_store' = SaveManifest(manifest_store, sweep.m)
    /\ sweep' = [sweep EXCEPT !.parts = Append(@, "Manifest built (new card).")]
    /\ pc' = "fsw_entry"
    /\ UNCHANGED <<aloneVars, now, driveVars, config, uiVars, caller, op, usage,
                   size_fraction, cycleVars, sweep_result, hist>>

ManifestRecord(path, expected, read, match, note) ==
    [path |-> path, expected_hash |-> expected, read_hash |-> read, match |-> match,
     note |-> note]

\* the record appended for an entry whose path does not exist (lines 141-150)
EntryMissing(e) == ManifestRecord(e.path, e.hash, "None", FALSE, "missing")

\* the record appended for an entry whose file was hashed to h (lines 151-160)
EntryHashed(e, h) == ManifestRecord(e.path, e.hash, h, h = e.hash, "None")

\* the record appended when hashing raised OSError (lines 163-171)
EntryUnreadable(e) == ManifestRecord(e.path, e.hash, "None", FALSE, "read error")

\* what mismatches.append receives for a record with match False:
\* rel, f"{rel} (missing)" or f"{rel} (read error)"
MismatchTextPathOnly(rec) == rec.path

MismatchText(rec) ==
    IF rec.note = "None" THEN rec.path ELSE rec.path \o " (" \o rec.note \o ")"

\* one pass of the loop body for entry e: mismatches and records afterwards
AfterEntry(sw, rec) ==
    [sw EXCEPT !.mismatches = IF rec.match THEN @ ELSE Append(@, MismatchText(rec)),
               !.manifest_vd = Append(@, rec),
               !.idx = @ + 1]

\* `len(mismatches) == 0`, the first element of the returned tuple
VerifyPassedAlways(mismatches) == TRUE

VerifyPassed(mismatches) == Len(mismatches) = 0

\* verify_manifest: one iteration of `for i, (rel, expected_hash) in enumerate(entries)`
VerifyStep ==
    /\ pc = "verify"
    /\ sweep.idx < Len(sweep.entries)
    /\ IF AbortCheck(abort_requested)
       THEN /\ sweep_result' = [sweep_result EXCEPT
                                   !.manifest_passed = VerifyPassed(sweep.mismatches),
                                   !.vd_manifest = sweep.manifest_vd,
                                   !.aborted = TRUE,
                                   !.message = "Full sweep aborted",
                                   !.details = <<"File verification aborted",
                                                 "No timestamp written.">>]
            /\ pc' = "returned"
            /\ UNCHANGED sweep
       ELSE /\ LET e == sweep.entries[sweep.idx + 1]
               IN  IF files[e.path] = "absent"
                   THEN sweep' = AfterEntry(sweep, EntryMissing(e))
                   ELSE \/ sweep' = AfterEntry(sweep, EntryHashed(e, files[e.path]))
                        \/ sweep' = AfterEntry(sweep, EntryUnreadable(e))
            /\ UNCHANGED <<pc, sweep_result>>
    /\ UNCHANGED <<aloneVars, now, driveVars, hostVars, uiVars, caller, op, usage,
                   size_fraction, cycleVars, hist>>

\* verify_manifest returned aborted=False: full_sweep lines 396-416
VerifyDone ==
    /\ pc = "verify"
    /\ sweep.idx = Len(sweep.entries)
    /\ LET passed == VerifyPassed(sweep.mismatches)
       IN  IF ~passed
           THEN /\ sweep_result' = [sweep_result EXCEPT
                                       !.manifest_passed = FALSE,
                                       !.vd_manifest = sweep.manifest_vd,
                                       !.passed = FALSE,
                                       !.message = "Full sweep failed",
                                       !.details = <<"File verification failed">>]
                /\ pc' = "returned"
                /\ UNCHANGED sweep
           ELSE /\ sweep_result' = [sweep_result EXCEPT
                                       !.manifest_passed = TRUE,
                                       !.vd_manifest = sweep.manifest_vd]
                /\ sweep' = [sweep EXCEPT !.parts = Append(@, "File verification passed.")]
                /\ pc' = "fsw_entry"
    /\ UNCHANGED <<aloneVars, now, driveVars, hostVars, uiVars, caller, op, usage,
                   size_fraction, cycleVars, hist>>

\* full_sweep lines 419-421 and free_space_sweep lines 184-217
FreeSpaceEntry ==
    /\ pc = "fsw_entry"
    /\ CycleEntry(UsableBytes(usage.free),
                  [hist EXCEPT !.log = Append(@, Ev("free_space", 0))])
    /\ UNCHANGED <<aloneVars, now, files, marker, hostVars, uiVars, caller, op, usage,
                   size_fraction, sweepVars>>

\* the marker file left as it was
SweepTimestampNotWritten(t) == marker

\* write_last_sweep_timestamp: the marker after write_text returned
WriteLastSweepTimestamp(t) == MarkerWritten(t)

\* full_sweep lines 426-440: what follows from the free-space result
SweepOutcomeIgnoresAbort(fs) == IF ~fs.passed THEN "failed" ELSE "commit"

SweepOutcome(fs) ==
    IF fs.aborted THEN "aborted"
    ELSE IF ~fs.passed THEN "failed"
    ELSE "commit"

\* full_sweep lines 422-443: free_space_sweep has returned
SweepAfterFreeSpace ==
    /\ pc = "fs_after"
    /\ LET seen == [sweep_result EXCEPT
                       !.free_space_passed = cycle_result.passed,
                       !.vd_free_space = cycle_result.verification_details]
           outcome == SweepOutcome(cycle_result)
       IN  IF outcome = "aborted"
           THEN /\ sweep_result' = [seen EXCEPT
                                       !.aborted = TRUE,
                                       !.message = "Full sweep aborted",
                                       !.details = Append(sweep.parts, cycle_result.details.text)]
                /\ pc' = "returned"
                /\ UNCHANGED <<now, marker, hist>>
           ELSE IF outcome = "failed"
           THEN /\ sweep_result' = [seen EXCEPT
                                       !.passed = FALSE,
                                       !.message = "Full sweep failed",
                                       !.details = Append(sweep.parts, "Free-space sweep failed")]
                /\ pc' = "returned"
                /\ UNCHANGED <<now, marker, hist>>
           ELSE \/ /\ \E t \in ClockRead :
                        /\ now' = t
                        /\ marker' = WriteLastSweepTimestamp(t)
                   /\ hist' = [hist EXCEPT !.marker_writes = @ + 1]
                   /\ sweep_result' = [seen EXCEPT
                                          !.details = Append(sweep.parts, cycle_result.details.text)]
                   /\ pc' = "returned"
                \/ /\ marker' \in {marker, MarkerTruncated}   \* mkdir or write_text raises
                   /\ hist' = [hist EXCEPT !.marker_writes =
                                   IF marker' # marker THEN @ + 1 ELSE @]
                   /\ sweep_result' = seen
                   /\ pc' = "raised"
                   /\ UNCHANGED now
    /\ UNCHANGED <<aloneVars, files, temp_dir, test_files, hostVars, uiVars, caller, op,
                   usage, size_fraction, cycleVars, sweep>>

\* SentinelUI._on_full_sweep_done, run on the UI thread by root.after
OnFullSweepDone ==
    /\ pc = "returned"
    /\ caller = "ui"
    /\ op = "full_sweep"
    /\ operation_running' = FALSE
    /\ workers' = workers - 1
    /\ abort_requested' = FALSE
    /\ \E t \in ClockRead :
         /\ now' = t
         /\ config' = SaveConfig(config, Drive, NoTime, Time(t))
    /\ caller' = "none"
    /\ op' = "none"
    /\ pc' = "idle"
    /\ hist' = [hist EXCEPT !.ended = "returned"]
    /\ UNCHANGED <<aloneVars, driveVars, manifest_store, usage, size_fraction,
                   cycleVars, sweepVars>>

\* the result of the finished call and the frames that produced it are released:
\* what an operation leaves to the next one is the drive, the config file and the
\* UI's flags (a later run works in a temp directory of its own name)
Release ==
    /\ pc = "idle"
    /\ hist.op # "none"
    /\ hist' = [NoHist EXCEPT !.ops = hist.ops]
    /\ temp_dir' = FALSE
    /\ test_files' = {}
    /\ usage' = NoUsage
    /\ size_fraction' = 0
    /\ size_bytes' = 0
    /\ batch_sizes' = <<>>
    /\ batch_i' = 0
    /\ verification_details' = <<>>
    /\ h1' = NoneHash
    /\ cycle_result' = NoCycleResult
    /\ sweep' = NoSweep
    /\ sweep_result' = NoSweepResult
    /\ UNCHANGED <<aloneVars, now, files, marker, hostVars, uiVars, caller, op, pc>>

\* ------------------------------------------------ the batch planner on its own
\* remaining = size_bytes; batch_sizes = []
InitPlanner ==
    /\ InitProgram
    /\ files = [p \in Paths |-> "H1"]
    /\ marker = MarkerAbsent
    /\ manifest_store = NoManifest
    /\ mounts = NoMounts
    /\ \E N \in 0..MaxPlanN, M \in 1..MaxPlanM :
         planner = [N |-> N, M |-> M, remaining |-> N, batch_sizes |-> <<>>,
                    done |-> FALSE]

mainVars == <<runs, now, files, marker, manifest_store, config, temp_dir, test_files,
              operation_running, workers, abort_requested, caller, op, pc, usage,
              size_fraction,
              size_bytes, batch_sizes, batch_i, verification_details, h1, cycle_result,
              sweep, sweep_result, hist>>

\* while remaining > 0: one pass through the loop body
PlanIterate ==
    /\ ~planner.done
    /\ planner.remaining > 0
    /\ LET st == PlanBody([batch_sizes |-> planner.batch_sizes,
                           remaining |-> planner.remaining], planner.M)
       IN  planner' = [planner EXCEPT !.batch_sizes = st.batch_sizes,
                                      !.remaining = st.remaining]
    /\ UNCHANGED <<mainVars, mounts>>

\* the loop condition is false: num_batches = len(batch_sizes)
PlanExit ==
    /\ ~planner.done
    /\ ~(planner.remaining > 0)
    /\ planner' = [planner EXCEPT !.done = TRUE]
    /\ UNCHANGED <<mainVars, mounts>>

NextPlanner ==
    \/ PlanIterate
    \/ PlanExit

\* the loop is straight-line code: it keeps running until it exits
SpecPlanner == InitPlanner /\ [][NextPlanner]_vars /\ WF_vars(NextPlanner)

\* the drive's files were changed while no call was running
HasFileChange == \E k \in 1..Len(hist.log) : hist.log[k].step = "file_change"

\* ------------------------------------------- the two engines called directly
\* what shutil.disk_usage may report to a direct call: free space below, at and
\* just above the safety margin, and plans of one, two and three batches
EngineUsages ==
    {[total |-> t * GiB, free |-> f] :
        t \in {10, 80},
        f \in {50 * MiB,
               SAFETY_MARGIN_BYTES,
               SAFETY_MARGIN_BYTES + 1,
               SAFETY_MARGIN_BYTES + MinSize,
               SAFETY_MARGIN_BYTES + MAX_FILE_BYTES,
               SAFETY_MARGIN_BYTES + MAX_FILE_BYTES + MiB,
               5 * GiB}}

InitEngine ==
    /\ InitProgram
    /\ files = [p \in Paths |-> "H1"]
    /\ marker = MarkerAbsent
    /\ manifest_store = NoManifest
    /\ planner = NoPlanner
    /\ mounts = NoMounts

\* quick_check(drive_root, size_fraction, abort_check=...) called by a host
CallQuickCheck ==
    /\ Begin("quick_check", "api", "qc_entry")
    /\ \E u \in EngineUsages, f \in Fractions :
         /\ usage' = u
         /\ size_fraction' = f
    /\ abort_requested' = FALSE
    /\ UNCHANGED <<operation_running, workers>>

\* free_space_sweep(drive_root, abort_check=...) called by a host
CallFreeSpaceSweep ==
    /\ Begin("free_space_sweep", "api", "fsw_entry")
    /\ \E u \in EngineUsages : usage' = u
    /\ size_fraction' = 0
    /\ abort_requested' = FALSE
    /\ UNCHANGED <<operation_running, workers>>

NextEngine ==
    \/ CallQuickCheck
    \/ CallFreeSpaceSweep
    \/ QuickCheckEntry
    \/ FreeSpaceEntry
    \/ Poll
    \/ Write
    \/ Read1
    \/ Read2
    \/ Cleanup
    \/ RequestAbort

SpecEngine == InitEngine /\ [][NextEngine]_vars

\* --------------------------------- quick_check called twice in sequence
\* the drives and fractions the two calls are made with
RepeatUsages == DriveUsages
RepeatFractions == {0, 10}

\* quick_check(drive, size_fraction) called by a host that calls it again,
\* with the same arguments and no abort_check, once it has returned; nothing
\* else touches the drive in between, and the second call makes a temp
\* directory of a new name
CallQuickCheckInSequence ==
    /\ caller = "none"
    /\ pc = "idle"
    /\ Len(runs) < MaxRuns
    /\ caller' = "api"
    /\ op' = "quick_check"
    /\ pc' = "qc_entry"
    /\ hist' = StartHist("quick_check", "api", now)
    /\ IF runs = <<>>
       THEN \E u \in RepeatUsages, f \in RepeatFractions :
               /\ usage' = u
               /\ size_fraction' = f
       ELSE UNCHANGED <<usage, size_fraction>>
    /\ temp_dir' = FALSE
    /\ test_files' = {}
    /\ size_bytes' = 0
    /\ batch_sizes' = <<>>
    /\ batch_i' = 0
    /\ verification_details' = <<>>
    /\ h1' = NoneHash
    /\ cycle_result' = NoCycleResult
    /\ abort_requested' = FALSE
    /\ UNCHANGED <<aloneVars, now, files, marker, hostVars, operation_running, workers,
                   sweepVars>>

\* the call returns: the host keeps the result and looks at the drive
QuickCheckInSequenceReturn ==
    /\ pc = "returned"
    /\ caller = "api"
    /\ runs' = Append(runs, [result |-> cycle_result, temp_dir |-> temp_dir,
                             test_files |-> test_files, log |-> hist.log])
    /\ caller' = "none"
    /\ op' = "none"
    /\ pc' = "idle"
    /\ hist' = [hist EXCEPT !.ended = pc]
    /\ UNCHANGED <<planner, mounts, now, driveVars, hostVars, uiVars, usage,
                   size_fraction, cycleVars, sweepVars>>

NextRepeat ==
    \/ CallQuickCheckInSequence
    \/ QuickCheckEntry
    \/ Poll
    \/ Write
    \/ Read1
    \/ Read2
    \/ Cleanup
    \/ QuickCheckInSequenceReturn

SpecRepeat == InitEngine /\ [][NextRepeat]_vars

\* ------------------------- the two engines called one after the other
\* a host calls quick_check or free_space_sweep, keeps batch and expected_hash
\* of the result's records with the batch sizes of the call, and calls an engine
\* again on the drive as it then is; no abort_check is passed
CallEngineInSequence ==
    /\ caller = "none"
    /\ pc = "idle"
    /\ Len(runs) < MaxRuns
    /\ caller' = "api"
    /\ \E o \in {"quick_check", "free_space_sweep"}, u \in DriveUsages :
         /\ op' = o
         /\ pc' = IF o = "quick_check" THEN "qc_entry" ELSE "fsw_entry"
         /\ hist' = StartHist(o, "api", now)
         /\ usage' = u
         /\ size_fraction' = IF o = "quick_check" THEN 10 ELSE 0
    /\ temp_dir' = FALSE
    /\ test_files' = {}
    /\ size_bytes' = 0
    /\ batch_sizes' = <<>>
    /\ batch_i' = 0
    /\ verification_details' = <<>>
    /\ h1' = NoneHash
    /\ cycle_result' = NoCycleResult
    /\ abort_requested' = FALSE
    /\ UNCHANGED <<aloneVars, now, files, marker, hostVars, operation_running, workers,
                   sweepVars>>

EngineInSequenceReturn ==
    /\ pc = ReturnPc
    /\ caller = "api"
    /\ runs' = Append(runs,
                      [op |-> op,
                       verification_details |->
                           [k \in 1..Len(cycle_result.verification_details) |->
                               [batch |-> cycle_result.verification_details[k].batch,
                                expected_hash |->
                                    cycle_result.verification_details[k].expected_hash]],
                       batch_sizes |-> batch_sizes])
    /\ caller' = "none"
    /\ op' = "none"
    /\ pc' = "idle"
    /\ hist' = [hist EXCEPT !.ended = pc]
    /\ UNCHANGED <<planner, mounts, now, driveVars, hostVars, uiVars, usage,
                   size_fraction, cycleVars, sweepVars>>

NextSeed ==
    \/ CallEngineInSequence
    \/ QuickCheckEntry
    \/ FreeSpaceEntry
    \/ Poll
    \/ Write
    \/ Read1
    \/ Read2
    \/ Cleanup
    \/ EngineInSequenceReturn

SpecSeed == InitEngine /\ [][NextSeed]_vars

\* ------------------------- build_manifest and verify_manifest called in turn
\* the drives build_manifest and verify_manifest are called on: those of a
\* sweep, and a card with no file on it
ManifestDrives == FileStates \cup {[p \in Paths |-> "absent"]}

\* build_manifest(drive_root, abort_check=...) is called
CallBuildManifest ==
    /\ BeginOn("build_manifest", "api", "mb_entry", ManifestDrives)
    /\ usage' = NoUsage
    /\ size_fraction' = 0
    /\ abort_requested' = FALSE
    /\ UNCHANGED <<operation_running, workers>>

\* build_manifest, lines 73-85: the files found by rglob, in order
BuildManifestEntry ==
    /\ pc = "mb_entry"
    /\ sweep' = [NoSweep EXCEPT !.all_files = AllFiles]
    /\ hist' = [hist EXCEPT !.log = Append(@, Ev("build_manifest", 0))]
    /\ pc' = "build"
    /\ UNCHANGED <<aloneVars, now, driveVars, hostVars, uiVars, caller, op, usage,
                   size_fraction, cycleVars, sweep_result>>

\* build_manifest, line 98: return manifest, paths, False
BuildManifestReturn ==
    /\ pc = "build"
    /\ BuildComplete(sweep)
    /\ pc' = "built"
    /\ UNCHANGED <<aloneVars, now, driveVars, hostVars, uiVars, caller, op, usage,
                   size_fraction, cycleVars, sweepVars, hist>>

\* the user edits, deletes or restores a file between the two calls
DriveChanges ==
    /\ pc = "built"
    /\ ~ HasFileChange
    /\ \E f \in ManifestDrives \ {files} : files' = f
    /\ hist' = [hist EXCEPT !.log = Append(@, Ev("file_change", 0))]
    /\ UNCHANGED <<aloneVars, now, marker, temp_dir, test_files, hostVars, uiVars, caller,
                   op, pc, usage, size_fraction, cycleVars, sweepVars>>

\* verify_manifest(drive_root, manifest, abort_check=...), lines 130-134
CallVerifyManifest ==
    /\ pc = "built"
    /\ sweep' = [sweep EXCEPT !.entries = sweep.m, !.idx = 0]
    /\ hist' = [hist EXCEPT !.log = Append(@, Ev("verify_manifest", 0))]
    /\ pc' = "verify"
    /\ UNCHANGED <<aloneVars, now, driveVars, hostVars, uiVars, caller, op, usage,
                   size_fraction, cycleVars, sweep_result>>

\* verify_manifest, line 173: return len(mismatches) == 0, mismatches, details, False
VerifyManifestReturn ==
    /\ pc = "verify"
    /\ sweep.idx = Len(sweep.entries)
    /\ sweep_result' = [sweep_result EXCEPT
                           !.manifest_passed = VerifyPassed(sweep.mismatches),
                           !.vd_manifest = sweep.manifest_vd]
    /\ pc' = "returned"
    /\ UNCHANGED <<aloneVars, now, driveVars, hostVars, uiVars, caller, op, usage,
                   size_fraction, cycleVars, sweep, hist>>

NextManifest ==
    \/ CallBuildManifest
    \/ BuildManifestEntry
    \/ BuildStep
    \/ BuildManifestReturn
    \/ DriveChanges
    \/ CallVerifyManifest
    \/ VerifyStep
    \/ VerifyManifestReturn
    \/ RequestAbort

SpecManifest == InitEngine /\ [][NextManifest]_vars

\* ----------------------------- cards moved between drive letters, and sweeps
InitMounts ==
    /\ InitProgram
    /\ files = [p \in Paths |-> "H1"]
    /\ marker = MarkerAbsent
    /\ manifest_store = NoManifest
    /\ planner = NoPlanner
    /\ mounts = NoMounts

\* the user inserts a card: Windows gives it a free drive letter
InsertCard ==
    \E c \in Cards, l \in Letters :
       /\ mounts.at[l] = "none"
       /\ \A l2 \in Letters : mounts.at[l2] # c
       /\ mounts' = [mounts EXCEPT !.at[l] = c]
       /\ UNCHANGED <<mainVars, planner>>

\* the user removes a card
EjectCard ==
    \E l \in Letters :
       /\ mounts.at[l] # "none"
       /\ mounts' = [mounts EXCEPT !.at[l] = "none"]
       /\ UNCHANGED <<mainVars, planner>>

\* full_sweep(drive_root), lines 371-392: load_manifest(drive_root) reads
\* _manifest_path(drive_root); with no file there the manifest of the card at that
\* root is built and saved to the same path, otherwise the file found is verified
\* against the card at that root
SweepAtRoot ==
    \E r \in Roots :
       LET card == mounts.at[Letter(r)]
           key == ManifestKey(r)
           stored == mounts.manifests[key]
           had == \E k \in ManifestKeys : mounts.manifests[k] = card
       IN  /\ card # "none"
           /\ IF stored = "none"
              THEN mounts' = [mounts EXCEPT
                                 !.manifests[key] = card,
                                 !.sweep = [root |-> r, card |-> card, had |-> had,
                                            loaded |-> "none"]]
              ELSE mounts' = [mounts EXCEPT
                                 !.sweep = [root |-> r, card |-> card, had |-> had,
                                            loaded |-> stored]]
           /\ UNCHANGED <<mainVars, planner>>

NextMounts ==
    \/ InsertCard
    \/ EjectCard
    \/ SweepAtRoot

SpecMounts == InitMounts /\ [][NextMounts]_vars

Next ==
    \/ OnQuickCheckClick
    \/ OnClickWhileRunning
    \/ ApiRunQuickCheck
    \/ QuickCheckEntry
    \/ OnFullSweepClick
    \/ ApiRunFullSweep
    \/ FullSweepEntry
    \/ BuildStep
    \/ BuildDone
    \/ VerifyStep
    \/ VerifyDone
    \/ FreeSpaceEntry
    \/ Poll
    \/ Write
    \/ Read1
    \/ Read2
    \/ Cleanup
    \/ SweepAfterFreeSpace
    \/ OnQuickCheckDone
    \/ OnFullSweepDone
    \/ ApiReturn
    \/ RequestAbort
    \/ Release

Spec == Init /\ [][Next]_vars

\* the engines driven through sentinel.api alone, by a host that is not the UI
NextApi ==
    \/ ApiRunQuickCheck
    \/ QuickCheckEntry
    \/ ApiRunFullSweep
    \/ FullSweepEntry
    \/ BuildStep
    \/ BuildDone
    \/ VerifyStep
    \/ VerifyDone
    \/ FreeSpaceEntry
    \/ Poll
    \/ Write
    \/ Read1
    \/ Read2
    \/ Cleanup
    \/ SweepAfterFreeSpace
    \/ ApiReturn
    \/ RequestAbort
    \/ Release

SpecApi == Init /\ [][NextApi]_vars


\* ------------------------------------------------------------------- claims
HasEvent(step) == \E k \in 1..Len(hist.log) : hist.log[k].step = step
Count(step, b) == Cardinality({k \in 1..Len(hist.log) : hist.log[k] = Ev(step, b)})
LoopPcs == {"poll", "write", "read1", "read2"}

\* full_sweep has returned a result to its caller
SweepReturned ==
    /\ hist.op = "full_sweep"
    /\ pc = "returned" \/ (pc = "idle" /\ hist.ended = "returned")

\* quick_check or free_space_sweep was called and has returned its dict
CycleReturned ==
    /\ pc \in {"fs_after", "returned", "raised", "idle"}
    /\ \/ hist.op = "quick_check"
       \/ hist.op \in {"full_sweep", "free_space_sweep"} /\ HasEvent("free_space")
CeilDiv(a, b) == (a + b - 1) \div b

\* what the finished loop has produced for the inputs N and M
PlanPost ==
    LET s == planner.batch_sizes
        N == planner.N
        M == planner.M
    IN  /\ SumSeq(s) = N
        /\ \A k \in 1..Len(s) : s[k] \in 1..M
        /\ (s = <<>>) <=> (N = 0)
        /\ \A k \in 1..(Len(s) - 1) : s[k] = M
        /\ Len(s) = CeilDiv(N, M)

\* C5: for every N >= 0 and M > 0 the batch-splitting loop terminates, and the
\* list it yields sums to N, has every element in 1..M, is empty iff N = 0, has
\* every element but the last equal to M and has length ceil(N / M).
C5_BatchPlan == [](planner.done => PlanPost) /\ <>planner.done

\* a finished plan of several batches whose last batch is a remainder
C5_Witness ==
    /\ planner.done
    /\ Len(planner.batch_sizes) >= 3
    /\ planner.N % planner.M # 0


\* C1: full_sweep writes the drive-resident marker only where the manifest phase
\* succeeded and the free-space phase passed without abort: a run that returns
\* aborted=True or passed=False leaves the marker as it was before the run, and
\* in any run the marker is written at most once, after the last free-space batch.
C1_MarkerOnlyOnSuccess ==
    /\ (SweepReturned /\ (sweep_result.aborted \/ ~sweep_result.passed))
          => marker = hist.marker0
    /\ hist.marker_writes <= 1
    /\ (hist.op # "none" /\ marker # hist.marker0) => hist.marker_writes = 1
    /\ hist.marker_writes = 1 =>
          /\ hist.op = "full_sweep"
          /\ pc \in {"returned", "raised", "idle"}
          /\ sweep_result.manifest_passed
          /\ cycle_result.passed /\ ~cycle_result.aborted
          /\ Len(batch_sizes) >= 1 /\ batch_i = Len(batch_sizes)
          /\ \A b \in 0..(Len(batch_sizes) - 1) : Count("read2", b) = 1

\* a sweep aborted in the free-space phase, after a batch had passed, on a card
\* that carried a marker
C1_Witness ==
    /\ SweepReturned
    /\ sweep_result.aborted
    /\ HasEvent("free_space")
    /\ Len(sweep_result.vd_free_space) >= 1
    /\ hist.marker0 = MarkerWritten(0)
    /\ hist.start = 1

MarkerFresh == marker.present /\ marker.parseable /\ marker.ts >= hist.start

\* C2 (as stated): every full_sweep run whose returned result has passed = True
\* leaves a marker timestamp not earlier than the run's start.
C2_PassedImpliesFreshMarker == (SweepReturned /\ sweep_result.passed) => MarkerFresh

\* C2 (amended): every full_sweep run whose returned result has passed = True and
\* no aborted flag leaves a marker timestamp not earlier than the run's start.
C2_CompletedPassImpliesFreshMarker ==
    (SweepReturned /\ sweep_result.passed /\ ~sweep_result.aborted) => MarkerFresh

\* a passing sweep that started after the card's previous marker was written
C2_Witness ==
    /\ SweepReturned
    /\ sweep_result.passed /\ ~sweep_result.aborted
    /\ hist.marker0 = MarkerWritten(0)
    /\ hist.start = 1
    /\ marker = MarkerWritten(1)

\* the UI's completion handler of a full sweep has run
UiSweepDone ==
    pc = "idle" /\ hist.op = "full_sweep" /\ hist.caller = "ui" /\ hist.ended = "returned"

\* C3: after a sweep started from the UI whose result has aborted=True or
\* passed=False, last_sweep_time in the config equals its value before the sweep.
C3_HostRecordOnlyOnSuccess ==
    (UiSweepDone /\ (sweep_result.aborted \/ ~sweep_result.passed))
        => LoadConfig(config).last_sweep_time = LoadConfig(hist.config0).last_sweep_time

\* run_full_sweep has returned to the host
ApiSweepDone ==
    pc = "idle" /\ hist.op = "full_sweep" /\ hist.caller = "api" /\ hist.ended = "returned"

\* C4: after run_full_sweep returns passed=True and not aborted, the drive-resident
\* marker and the host-resident last_sweep_time both hold the new timestamp.
C4_CommitWritesBothStores ==
    (ApiSweepDone /\ sweep_result.passed /\ ~sweep_result.aborted)
        => /\ MarkerFresh
           /\ LoadConfig(config).last_sweep_time.set
           /\ LoadConfig(config).last_sweep_time.ts >= hist.start

RecordsConsistent(vd) ==
    \A k \in 1..Len(vd) :
        vd[k].match <=> (vd[k].expected_hash = vd[k].read1_hash
                         /\ vd[k].read1_hash = vd[k].read2_hash)

\* C6: a batch passes iff expected_hash = read1_hash = read2_hash; the first batch
\* with a differing read makes the operation return passed=False; a non-aborted
\* result has passed=True iff every planned batch was written, read twice and passed.
C6_BatchPass ==
    /\ RecordsConsistent(verification_details)
    /\ (\E k \in 1..Len(verification_details) : ~verification_details[k].match)
          => (~cycle_result.passed /\ pc \notin LoopPcs
              /\ cycle_result.verification_details = verification_details)
    /\ (CycleReturned /\ ~cycle_result.aborted) =>
          (cycle_result.passed <=>
              /\ Len(batch_sizes) >= 1
              /\ Len(cycle_result.verification_details) = Len(batch_sizes)
              /\ \A k \in 1..Len(cycle_result.verification_details) :
                    cycle_result.verification_details[k].match
              /\ \A b \in 0..(Len(batch_sizes) - 1) :
                    Count("write", b) = 1 /\ Count("read1", b) = 1 /\ Count("read2", b) = 1)

\* a run of two batches failed by the second read of its second batch
C6_Witness ==
    /\ CycleReturned
    /\ ~cycle_result.passed
    /\ Len(cycle_result.verification_details) = 2
    /\ cycle_result.verification_details[1].match
    /\ ~cycle_result.verification_details[2].match
    /\ cycle_result.verification_details[2].read1_hash =
          cycle_result.verification_details[2].expected_hash

\* C7: a first read that differs from expected_hash fails the operation at once,
\* without the second read (read2_hash = None, match = False, the text names the
\* first read); a failure naming the second read occurs only when read1_hash =
\* expected_hash and read2_hash differs.
C7_FirstReadMismatch ==
    /\ \A k \in 1..Len(verification_details) :
          LET r == verification_details[k]
          IN  r.read1_hash # r.expected_hash =>
                 /\ r.read2_hash = NoneHash
                 /\ ~r.match
                 /\ k = Len(verification_details)
                 /\ Count("read2", r.batch - 1) = 0
                 /\ pc \notin LoopPcs
                 /\ ~cycle_result.passed
                 /\ cycle_result.details = Details("Hash mismatch (first read)", r.batch, "")
                 /\ cycle_result.verification_details = verification_details
    /\ cycle_result.details.text = "Hash mismatch (second read)" =>
          LET vd == cycle_result.verification_details
              r == vd[Len(vd)]
          IN  /\ r.batch = cycle_result.details.batch
              /\ r.read1_hash = r.expected_hash
              /\ r.read2_hash # r.expected_hash
              /\ r.read2_hash # NoneHash

\* the first read of the second batch came back corrupt
C7_Witness ==
    /\ CycleReturned
    /\ cycle_result.details = Details("Hash mismatch (first read)", 2, "")
    /\ Len(cycle_result.verification_details) = 2
    /\ cycle_result.verification_details[2].read2_hash = NoneHash

\* C8 (as stated): at every moment of a quick_check or free_space_sweep run the
\* temporary directory holds at most one batch test file.
C8_AtMostOneTestFile == Cardinality(test_files) <= 1

RECURSIVE SizeOfFiles(_)
SizeOfFiles(S) ==
    IF S = {} THEN 0
    ELSE LET i == CHOOSE x \in S : TRUE
         IN  batch_sizes[i + 1] + SizeOfFiles(S \ {i})

\* C8 (amended): no test file is deleted before the final cleanup: while the batch
\* loop runs the temporary directory holds the test file of every batch written
\* so far, so the space used is bounded by the planned total (at most free space
\* minus the safety margin), not by one batch.
C8_FilesKeptUntilCleanup ==
    /\ pc \in {"read1", "read2"} => test_files = 0..batch_i
    /\ pc \in {"poll", "write"} => test_files = 0..(batch_i - 1)
    /\ test_files \subseteq 0..(Len(batch_sizes) - 1)
    /\ SizeOfFiles(test_files) <= size_bytes
    /\ size_bytes <= Max(0, usage.free - SAFETY_MARGIN_BYTES)

\* the second batch is being reread while the first batch's file is still there
C8_Witness == pc = "read2" /\ batch_i = 1 /\ test_files = {0, 1}

\* C9 (state part): once the temp directory was created, the engine returns only
\* after the cleanup ran, and a cleanup without OSError leaves nothing behind
CleanupRan ==
    (HasEvent("mkdir") /\ pc \in {"fs_after", "returned", "raised", "idle"})
        => /\ HasEvent("cleanup_done") \/ HasEvent("cleanup_oserror")
           /\ HasEvent("cleanup_done") => (~temp_dir /\ test_files = {})

\* C9: once the temporary directory exists, removal of the test files and of the
\* directory is attempted on every exit path, leaving nothing when the deletions
\* succeed; a failing deletion never changes the returned result and never raises.
C9_CleanupOnEveryExit ==
    /\ []CleanupRan
    /\ [][pc = "cleanup" => (cycle_result' = cycle_result
                              /\ pc' \in {"cleanup", ReturnPc})]_vars

\* a run ended by a write error, whose cleanup then hit an OSError
C9_Witness ==
    /\ CycleReturned
    /\ cycle_result.details.text = "Write error"
    /\ HasEvent("cleanup_oserror")
    /\ temp_dir
    /\ test_files # {}

IOFailTexts == {"Write error", "Read error", "Read error (second pass)"}

\* C10: an I/O failure while writing or rereading a batch ends the operation at
\* once with passed=False and the error text: the failing step is not retried, no
\* later batch is written or read, no record is appended for the failing batch,
\* and the records of the earlier batches are returned unchanged.
C10_IOFailureEndsOperation ==
    cycle_result.details.text \in IOFailTexts =>
        LET b == cycle_result.details.batch
            vd == cycle_result.verification_details
            t == cycle_result.details.text
        IN  /\ ~cycle_result.passed /\ ~cycle_result.aborted
            /\ cycle_result.details.err \in WriteErrors \cup ReadErrors
            /\ pc \notin LoopPcs
            /\ Len(vd) = b - 1
            /\ \A k \in 1..Len(vd) :
                  LET e == ExpectedHash(k - 1, batch_sizes[k])
                  IN  vd[k] = Record(k, e, e, e, TRUE)
            /\ vd = verification_details
            /\ Count("write", b - 1) = 1
            /\ Count("read1", b - 1) = (IF t = "Write error" THEN 0 ELSE 1)
            /\ Count("read2", b - 1) = (IF t = "Read error (second pass)" THEN 1 ELSE 0)
            /\ \A j \in b..(Len(batch_sizes) - 1) :
                  Count("poll", j) + Count("write", j) + Count("read1", j)
                      + Count("read2", j) = 0

\* the second pass over the first of two batches raised
C10_Witness ==
    /\ CycleReturned
    /\ cycle_result.details = Details("Read error (second pass)", 1, "EIO")
    /\ Len(batch_sizes) = 2
    /\ cycle_result.verification_details = <<>>

\* ---------------------------------------------------------------- C11, C12
\* the engine of the operation has run its sizing code (lines 42-47 / 184-187)
EngineEntered ==
    /\ pc \in {"poll", "write", "read1", "read2", "cleanup", "fs_after",
               "returned", "raised"}
    /\ \/ hist.op = "quick_check"
       \/ hist.op \in {"full_sweep", "free_space_sweep"} /\ HasEvent("free_space")

EngineReturned == EngineEntered /\ pc \in {"fs_after", "returned", "raised"}

\* free space less the 100 MiB margin, never negative
FreeAfterMargin ==
    IF usage.free <= SAFETY_MARGIN_BYTES THEN 0 ELSE usage.free - SAFETY_MARGIN_BYTES

\* s is the largest whole size not above the requested percentage of capacity
IsFloorOfFraction(s) ==
    /\ 100 * s <= size_fraction * usage.total
    /\ 100 * (s + 1) > size_fraction * usage.total

\* the size the operation had to plan, as the claim states it
IsPlannedSize(s) ==
    IF hist.op = "quick_check"
    THEN /\ s <= FreeAfterMargin
         /\ 100 * s <= size_fraction * usage.total
         /\ s = FreeAfterMargin \/ IsFloorOfFraction(s)
    ELSE s = FreeAfterMargin

\* C11: when the planned size is below 1 KiB (in particular when free space is
\* at most the 100 MiB margin) quick_check and free_space_sweep return
\* passed=False with no records, and no temp directory or file was made.
C11_BelowFloorLeavesDriveUntouched ==
    (/\ EngineEntered
     /\ \/ usage.free <= SAFETY_MARGIN_BYTES
        \/ \E s \in 0..(MinSize - 1) : IsPlannedSize(s))
    => /\ EngineReturned
       /\ cycle_result.passed = FALSE
       /\ cycle_result.verification_details = <<>>
       /\ ~ temp_dir
       /\ test_files = {}
       /\ ~ HasEvent("mkdir")
       /\ ~ HasEvent("write")

\* a free-space sweep refused a drive that has half a KiB usable
C11_Witness ==
    /\ EngineReturned
    /\ hist.op = "free_space_sweep"
    /\ usage.free = SAFETY_MARGIN_BYTES + 1
    /\ size_bytes = 1
    /\ cycle_result.passed = FALSE
    /\ cycle_result.details.text = NoSpaceText(Engine)

\* C12: a quick check plans min(floor(size_fraction * total), max(0, free -
\* 100 MiB)) bytes and a free-space sweep max(0, free - 100 MiB); with 10 GiB
\* total, 5 GiB free and fraction 0.10 the plan is 1 GiB in exactly one batch.
C12_PlannedSize ==
    EngineEntered
    => /\ IsPlannedSize(size_bytes)
       /\ size_bytes >= MinSize => SumSeq(batch_sizes) = size_bytes
       /\ (/\ hist.op = "quick_check"
           /\ usage = [total |-> 10 * GiB, free |-> 5 * GiB]
           /\ size_fraction = 10)
          => /\ size_bytes = GiB
             /\ batch_sizes = <<GiB>>

\* the 10 GiB / 5 GiB / 0.10 scenario ran its single batch and passed
C12_Witness ==
    /\ EngineReturned
    /\ hist.op = "quick_check"
    /\ usage = [total |-> 10 * GiB, free |-> 5 * GiB]
    /\ size_fraction = 10
    /\ cycle_result.passed
    /\ Len(cycle_result.verification_details) = 1

\* ---------------------------------------------------------------------- C13
\* positions in the log of the operation where abort_check() was called
PollPositions == {i \in 1..Len(hist.log) : hist.log[i].step = "poll"}

\* the batch (0-based) before which the last call of abort_check() was made
LastPolledBatch ==
    hist.log[CHOOSE i \in PollPositions : \A j \in PollPositions : j <= i].batch

\* C13: the cancellation probe is polled exactly once before each batch and
\* nowhere else; when it returns true before batch k the operation writes no
\* further batch and returns aborted=True, batches_completed = k, batches_total
\* = planned batches, bytes_tested = sum of batches 0..k-1, bytes_total = the
\* planned size, and exactly k records, all matching.
C13_PollOncePerBatch ==
    EngineEntered
    => /\ \A i \in PollPositions :
             /\ i > 1
             /\ hist.log[i - 1].step \in {"mkdir", "read2"}
             /\ \A j \in PollPositions : hist.log[j].batch = hist.log[i].batch => j = i
       /\ \A i \in 1..Len(hist.log) :
             hist.log[i].step = "write"
             => /\ i > 1
                /\ hist.log[i - 1] = Ev("poll", hist.log[i].batch)
       /\ (EngineReturned /\ cycle_result.aborted)
          => LET k == LastPolledBatch
                 r == cycle_result
             IN  /\ \A b \in k..Len(batch_sizes) : Count("write", b) = 0
                 /\ r.batches_completed = k
                 /\ r.batches_total = Len(batch_sizes)
                 /\ r.batches_total = CeilDiv(size_bytes, MAX_FILE_BYTES)
                 /\ r.bytes_tested = SumFirst(batch_sizes, k)
                 /\ r.bytes_total = size_bytes
                 /\ Len(r.verification_details) = k
                 /\ \A n \in 1..k : /\ r.verification_details[n].match
                                    /\ r.verification_details[n].batch = n

\* cancelled before the second batch of a plan of two: one batch tested
C13_Witness ==
    /\ EngineReturned
    /\ cycle_result.aborted
    /\ cycle_result.batches_completed = 1
    /\ cycle_result.batches_total = 2
    /\ Count("poll", 0) = 1
    /\ Count("poll", 1) = 1
    /\ Count("write", 0) = 1

\* ---------------------------------------------------------------------- C14
\* C14: for every aborted quick_check or free_space_sweep result the reported
\* confidence percentage equals round(100 * bytes_tested / bytes_total) and is
\* 100 only when bytes_tested = bytes_total.
C14_ConfidencePct ==
    (EngineReturned /\ cycle_result.aborted)
    => LET r == cycle_result
       IN  /\ r.bytes_total > 0
           /\ r.extrapolated_confidence_pct = PyRound(100 * r.bytes_tested, r.bytes_total)
           /\ r.extrapolated_confidence_pct = 100 => r.bytes_tested = r.bytes_total

\* ---------------------------------------------------------------- C15, C16
\* full_sweep took the verify path and verify_manifest has been called
InVerify ==
    /\ hist.op = "full_sweep"
    /\ HasEvent("verify_manifest")
    /\ pc # "fs_entry"

\* verify_manifest has returned with aborted = False
VerifyCompleted ==
    /\ InVerify
    /\ pc # "verify"
    /\ ~ (sweep_result.aborted /\ ~ HasEvent("free_space"))

IsMatchRecord(r) ==
    r.match /\ r.read_hash = r.expected_hash /\ r.note = "None"

IsContentMismatch(r) ==
    ~ r.match /\ r.read_hash \notin {"None", r.expected_hash} /\ r.note = "None"

IsAbsence(r) ==
    ~ r.match /\ r.read_hash = "None" /\ r.note # "None"

\* C15: a non-aborted verify_manifest attempts every manifest entry in
\* manifest order and produces exactly one record per entry, each in exactly
\* one of three outcomes (match; content mismatch with the file present;
\* absence); a missing or unreadable entry does not stop the remaining
\* entries, and passed is true iff no entry is mismatched or absent.
C15_VerifyEveryEntry ==
    InVerify
    => /\ Len(sweep.manifest_vd) = sweep.idx
       /\ \A k \in 1..Len(sweep.manifest_vd) :
             LET r == sweep.manifest_vd[k]
                 e == manifest_store.entries[k]
             IN  /\ r.path = e.path
                 /\ r.expected_hash = e.hash
                 /\ Cardinality({c \in 1..3 : \/ c = 1 /\ IsMatchRecord(r)
                                              \/ c = 2 /\ IsContentMismatch(r)
                                              \/ c = 3 /\ IsAbsence(r)}) = 1
                 /\ IsMatchRecord(r) => files[e.path] = e.hash
                 /\ IsContentMismatch(r) => files[e.path] = r.read_hash
                 /\ files[e.path] = "absent" => IsAbsence(r)
       /\ VerifyCompleted
          => /\ Len(sweep_result.vd_manifest) = Len(manifest_store.entries)
             /\ sweep_result.vd_manifest = sweep.manifest_vd
             /\ sweep_result.manifest_passed
                <=> \A k \in 1..Len(sweep_result.vd_manifest) :
                       sweep_result.vd_manifest[k].match

\* the first entry is missing and the second was still checked, and matched
C15_Witness ==
    /\ VerifyCompleted
    /\ Len(sweep_result.vd_manifest) = 2
    /\ IsAbsence(sweep_result.vd_manifest[1])
    /\ IsMatchRecord(sweep_result.vd_manifest[2])
    /\ ~ sweep_result.manifest_passed

\* the records with match False, in manifest order
BadRecords(vd) == SelectSeq(vd, LAMBDA r : ~ r.match)

C17_BadEntryIsTerminalFailure ==
    (/\ SweepReturned
     /\ pc = "returned"
     /\ \E k \in 1..Len(sweep_result.vd_manifest) : ~ sweep_result.vd_manifest[k].match)
    => /\ sweep_result.passed = FALSE
       /\ sweep_result.message = "Full sweep failed"
       /\ ~ HasEvent("free_space")
       /\ marker = hist.marker0

\* ---------------------------------------------------------------------- C18
\* verify_manifest, called on the manifest build_manifest returned, has returned
RoundTripDone ==
    /\ hist.op = "build_manifest"
    /\ pc = "returned"
    /\ HasEvent("verify_manifest")
    /\ sweep.idx = Len(sweep.entries)

\* every read of verify_manifest returned the file's bytes
NoReadError(vd) == \A k \in 1..Len(vd) : vd[k].note # "read error"

\* C18: if no file changes between the two calls and every file read returns
\* the same bytes, verify_manifest applied to the manifest of a non-aborted
\* build_manifest returns passed=True, no mismatch and one record with
\* match=True per manifest entry; files unreadable during build are not in the
\* manifest and cause no mismatch.
C18_ManifestRoundTrip ==
    (RoundTripDone /\ ~ HasFileChange /\ NoReadError(sweep_result.vd_manifest))
    => /\ sweep_result.manifest_passed
       /\ sweep.mismatches = <<>>
       /\ Len(sweep_result.vd_manifest) = Len(sweep.m)
       /\ \A k \in 1..Len(sweep.m) :
             /\ sweep_result.vd_manifest[k].path = sweep.m[k].path
             /\ sweep_result.vd_manifest[k].match
       /\ \A p \in Paths :
             (\A k \in 1..Len(sweep.paths) : sweep.paths[k] # p)
             => \A k \in 1..Len(sweep_result.vd_manifest) :
                   sweep_result.vd_manifest[k].path # p

\* photo.jpg could not be read during build, notes.txt round-trips
C18_Witness ==
    /\ RoundTripDone
    /\ ~ HasFileChange
    /\ files["photo.jpg"] = "H2"
    /\ sweep.paths = <<"notes.txt">>
    /\ sweep_result.manifest_passed
    /\ Len(sweep_result.vd_manifest) = 1

\* ---------------------------------------------------------------- C19, C20
\* full_sweep found no stored manifest and has started to build one
BuildPath ==
    /\ hist.op = "full_sweep"
    /\ HasEvent("build_manifest")

\* build_manifest returned aborted=True
BuildAborted ==
    /\ BuildPath
    /\ sweep_result.aborted
    /\ ~ HasEvent("free_space")

C20_NoHalfPersistedManifest ==
    [][/\ manifest_store' # manifest_store
          => /\ pc = "build"
             /\ ~ manifest_store.exists
             /\ sweep.idx = Len(sweep.all_files)
             /\ Len(sweep.paths) = Len(sweep.m)
             /\ manifest_store' = [exists |-> TRUE, entries |-> sweep.m]
             /\ ~ sweep_result'.aborted
       /\ (pc = "build" /\ pc' = "returned")
          => /\ sweep_result'.aborted
             /\ manifest_store' = NoManifest
       /\ (pc = "fs_entry" /\ pc' # "fs_entry" /\ ~ manifest_store.exists)
          => pc' = "build"]_vars

\* the build was cancelled after one file had been hashed: nothing is stored
C20_Witness ==
    /\ BuildAborted
    /\ pc = "returned"
    /\ Len(sweep.m) = 1
    /\ Len(sweep.all_files) = 2
    /\ manifest_store = NoManifest

\* ---------------------------------------------------------------------- C21
\* positions in the log of the steps of the write / verify / delete engine
EnginePositions ==
    {i \in 1..Len(hist.log) :
        hist.log[i].step \in {"mkdir", "poll", "write", "read1", "read2",
                              "cleanup_done", "cleanup_oserror"}}

\* positions in the log where a file test_<b>.bin was opened for writing
WritePositions == {i \in 1..Len(hist.log) : hist.log[i].step = "write"}

\* the manifest phase of the running sweep has completed with success
ManifestPhaseSucceeded ==
    IF HasEvent("build_manifest")
    THEN /\ sweep.idx = Len(sweep.all_files)
         /\ manifest_store = [exists |-> TRUE, entries |-> sweep.m]
    ELSE /\ HasEvent("verify_manifest")
         /\ sweep.idx = Len(sweep.entries)
         /\ Len(sweep.manifest_vd) = Len(sweep.entries)
         /\ \A k \in 1..Len(sweep.manifest_vd) : sweep.manifest_vd[k].match

\* C21: the free-space phase starts only after the manifest phase (build or
\* verify) has fully completed with success; when the manifest phase aborts or
\* fails the free-space phase never starts and no temp directory or test file
\* is created in that run; batches are processed in planner order and manifest
\* entries in enumeration order, one at a time.
C21_PhasesOrdered ==
    hist.op = "full_sweep"
    => /\ HasEvent("free_space") => ManifestPhaseSucceeded
       /\ (EnginePositions # {} \/ temp_dir \/ test_files # {} \/ pc \in LoopPcs)
          => HasEvent("free_space")
       /\ \A i \in EnginePositions :
             \E j \in 1..(i - 1) : hist.log[j].step = "free_space"
       /\ (pc = "returned" /\ ~ ManifestPhaseSucceeded)
          => /\ ~ HasEvent("free_space")
             /\ ~ temp_dir
             /\ test_files = {}
       /\ \A i \in WritePositions :
             hist.log[i].batch = Cardinality({j \in WritePositions : j < i})
       /\ \A k \in 1..Len(sweep.manifest_vd) :
             sweep.manifest_vd[k].path = sweep.entries[k].path
       /\ \A k \in 1..Len(sweep.paths) :
             \E n \in k..sweep.idx :
                /\ sweep.all_files[n] = sweep.paths[k]
                /\ k > 1 => \E n0 \in 1..(n - 1) : sweep.all_files[n0] = sweep.paths[k - 1]

\* a verification that found a mismatch ended the sweep with nothing written
C21_Witness ==
    /\ hist.op = "full_sweep"
    /\ pc = "returned"
    /\ HasEvent("verify_manifest")
    /\ ~ sweep_result.manifest_passed
    /\ ~ sweep_result.aborted
    /\ ~ HasEvent("free_space")
    /\ Len(sweep.manifest_vd) = 2

\* ---------------------------------------------------------------------- C22
\* C22: the manifest is persisted keyed by drive identity: a manifest saved for
\* a drive is the one loaded by a later sweep of the same drive whatever root
\* path it is mounted at, and a sweep of a different drive mounted at the same
\* root path never loads the first drive's manifest.
C22_ManifestKeyedByDriveIdentity ==
    mounts.sweep # NoMountSweep
    => /\ mounts.sweep.had => mounts.sweep.loaded = mounts.sweep.card
       /\ mounts.sweep.loaded \in {"none", mounts.sweep.card}

\* ---------------------------------------------------------------------- C23
\* the card carries a timestamp that can be read
MarkerReadable == marker.present /\ marker.parseable

\* C23: get_last_sweep_time(drive) returns the drive-resident timestamp
\* whenever it is present and parseable, even when the host-resident record
\* holds a different (including later) value, and falls back to the
\* host-resident record only when the drive marker is absent or unreadable.
C23_DriveMarkerPreferred ==
    LET t == GetLastSweepTime(marker, config)
    IN  /\ MarkerReadable => (t.set /\ t.ts = marker.ts)
        /\ ~ MarkerReadable
           => t = (IF config.exists THEN config.last_sweep_time ELSE NoTime)
        /\ (t # NoTime /\ config.exists /\ t # config.last_sweep_time)
           => MarkerReadable

\* the card says day 0, the host's record says a later day: the card wins
C23_Witness ==
    /\ MarkerReadable
    /\ config.exists
    /\ config.last_sweep_time.set
    /\ config.last_sweep_time.ts > marker.ts
    /\ GetLastSweepTime(marker, config) = Time(marker.ts)

\* ---------------------------------------------------------------------- C29
Intervals == 0..MaxInterval

\* a full sweep has just returned after writing the card's timestamp: the clock
\* still reads what the write read
SweepCommitted == hist.op = "full_sweep" /\ pc = "returned" /\ hist.marker_writes = 1

\* C29: sweep_due(drive, interval_days) is true iff the drive-resident marker
\* is absent or unparseable, or the whole days elapsed since its timestamp are
\* >= interval_days; immediately after a sweep that committed the timestamp it
\* is false for every interval_days >= 1, and after an aborted or failed sweep
\* its value is the same as before that sweep, for the same clock reading.
C29_SweepDue ==
    \A d \in Intervals :
        /\ \A t \in ClockRead :
              SweepDue(marker, t, d) <=> (~ MarkerReadable \/ t - marker.ts >= d)
        /\ (SweepCommitted /\ d >= 1) => ~ SweepDue(marker, now, d)
        /\ (SweepReturned /\ (sweep_result.aborted \/ ~ sweep_result.passed))
              => \A t \in ClockRead :
                    SweepDue(marker, t, d) = SweepDue(hist.marker0, t, d)

\* a sweep, due after one day on a card last swept the day before, has
\* committed: it is no longer due
C29_Witness ==
    /\ SweepCommitted
    /\ hist.marker0 = MarkerWritten(0)
    /\ SweepDue(hist.marker0, now, 1)
    /\ ~ SweepDue(marker, now, 1)

\* ---------------------------------------------------------------------- C28
PhaseNames == {"build_manifest", "verify_manifest", "free_space"}

\* the phase callback's invocations, in order
PhaseLog == SelectSeq(hist.log, LAMBDA e : e.step \in PhaseNames)

UiWorkerInFlight == caller = "ui" /\ pc # "idle"

\* the step is a completion handler (_on_quick_check_done, _on_full_sweep_done)
\* of the running operation
CompletionHandlerStep ==
    /\ caller = "ui"
    /\ pc = "returned"
    /\ pc' = "idle"
    /\ workers' = workers - 1

\* C30: in the UI at most one long-running operation is in flight at any time:
\* while operation_running is true, clicks on either start button start no new
\* worker thread, and operation_running becomes false only in the completion
\* handler of the running operation.
C30_OneOperationInFlight ==
    /\ [](/\ workers \in {0, 1}
          /\ workers = 1 <=> UiWorkerInFlight
          /\ workers = 1 => operation_running)
    /\ [][/\ workers' > workers => (~ operation_running /\ workers = 0)
          /\ operation_running => workers' <= workers
          /\ (operation_running /\ ~ operation_running') => CompletionHandlerStep]_vars

\* a full sweep started from the UI is reading back a batch, abort already
\* requested: clicks on the start buttons arrive while it runs
C30_Witness ==
    /\ UiWorkerInFlight
    /\ op = "full_sweep"
    /\ pc = "read2"
    /\ operation_running
    /\ abort_requested
    /\ workers = 1

\* ---------------------------------------------------------------------- C27
\* the file lies inside the housekeeping directory <root>/Sentinel
InsideSentinelDir(p) == StartsWith(StrPath(p), SentinelAbs \o <<"\\">>)

\* build_manifest has enumerated the drive and is hashing all_files
Enumerated == BuildPath /\ pc = "build"

\* C27: build_manifest tracks every regular file under the drive root except
\* those inside the housekeeping directory <root>/Sentinel, and excludes
\* nothing else: a file whose path merely begins with the same characters
\* (<root>/SentinelData/a.bin, <root>/Sentinel.txt) is among the files it hashes.
C27_OnlyHousekeepingExcluded ==
    Enumerated
    => \A p \in Paths \cup {MarkerFile} :
          (\E k \in 1..Len(sweep.all_files) : sweep.all_files[k] = p)
          <=> (IsFile(p) /\ ~ InsideSentinelDir(p))

\* ---------------------------------------------------------------------- C24
\* the reports of the manifest phase so far: one per entry reached, made after
\* the abort poll of its iteration
ManifestReports ==
    LET n == IF HasEvent("build_manifest") THEN Len(sweep.all_files)
             ELSE Len(sweep.entries)
    IN  [i \in 1..sweep.idx |-> ManifestReport(i - 1, n)]

\* the batch loop ran to its end: the engine reported "Cleaning up"
LoopCompleted == HasEvent("read2") /\ cycle_result.passed /\ ~ cycle_result.aborted

\* the reports of the batch loop of quick_check or free_space_sweep so far
BatchReports ==
    LET ev == SelectSeq(hist.log, LAMBDA e : e.step \in {"write", "read1", "read2"})
        n == Len(batch_sizes)
    IN  [i \in 1..Len(ev) |-> BatchReport(ev[i].step, ev[i].batch, n)]
        \o (IF LoopCompleted THEN <<CleaningUpReport(n)>> ELSE <<>>)

\* current never decreases, total is constant and positive, 0 <= current <= total
WellFormedProgress(r) ==
    \A i \in 1..Len(r) :
        /\ r[i].total > 0
        /\ 0 <= r[i].current
        /\ r[i].current <= r[i].total
        /\ i > 1 => /\ r[i - 1].current <= r[i].current
                    /\ r[i - 1].total = r[i].total

\* C24: within each phase (manifest build, manifest verify, free-space batches,
\* quick-check batches) the sequence of `current` values passed to the progress
\* sink is monotonically non-decreasing, `total` is constant and positive, and
\* 0 <= current <= total on every report.
C24_ProgressWithinPhase ==
    /\ WellFormedProgress(ManifestReports)
    /\ WellFormedProgress(BatchReports)

\* a sweep that verified two files and tested two batches has reported them all
C24_Witness ==
    /\ hist.op = "full_sweep"
    /\ HasEvent("verify_manifest")
    /\ Len(ManifestReports) = 2
    /\ Len(BatchReports) = 7
    /\ BatchReports[7] = Report(6, 6)

\* ---------------------------------------------------------------------- C25
\* the argument lists with which the progress sink given to run_full_sweep has
\* been invoked so far
SinkCallArgs ==
    {ReportArgs(ManifestReports[i], "Manifest") : i \in 1..Len(ManifestReports)}
    \cup {ReportArgs(BatchReports[i], "Batch") : i \in 1..Len(BatchReports)}
    \cup (IF PhaseCallbackOf(hist.caller) = "progress_callback"
          THEN {PhaseCallArgs(PhaseLog[i].step) : i \in 1..Len(PhaseLog)}
          ELSE {})

\* C25: every invocation that run_full_sweep makes of the caller-supplied
\* progress sink has the shape (current, total, message): the sink is never
\* called with any other argument list at a phase transition or within a phase.
C25_SinkCallShape ==
    (hist.op = "full_sweep" /\ hist.caller = "api")
    => \A a \in SinkCallArgs : Len(a) = 3

\* ---------------------------------------------------------------------- C26
\* the call met no I/O fault and every read returned what was written: no
\* OSError from mkdir, write, read, unlink or rmdir, and no hash mismatch
FaultFree(run) ==
    /\ run.result.details.err = ""
    /\ \A k \in 1..Len(run.result.verification_details) :
          run.result.verification_details[k].match
    /\ \A k \in 1..Len(run.log) : run.log[k].step # "cleanup_oserror"

\* what the call left on the drive besides the files it found
Residue(run) == [temp_dir |-> run.temp_dir, test_files |-> run.test_files]
NoResidue == [temp_dir |-> FALSE, test_files |-> {}]

BothRunsFaultFree == Len(runs) = MaxRuns /\ \A n \in 1..MaxRuns : FaultFree(runs[n])

\* the size the calls plan to test reaches the floor
PlannedAtFloor ==
    ~ BelowFloor(Min(TargetBytes(size_fraction, usage.total), UsableBytes(usage.free)))

\* C26 (as stated): with no I/O faults and stable reads, running quick_check
\* twice in sequence with the same arguments yields two results with
\* passed=True, and the set of files on the drive after the first run and
\* after the second run equals the set before the first run.
C26_TwoRunsPass ==
    BothRunsFaultFree
    => \A n \in 1..MaxRuns :
          /\ runs[n].result.passed
          /\ Residue(runs[n]) = NoResidue

\* C26 (amended): the same, for arguments and a drive with which the planned
\* test size is at least the 1024-byte floor.
C26_TwoRunsPassAtFloor ==
    (BothRunsFaultFree /\ PlannedAtFloor)
    => \A n \in 1..MaxRuns :
          /\ runs[n].result.passed
          /\ Residue(runs[n]) = NoResidue

\* two complete fault-free runs of two batches each
C26_Witness ==
    /\ BothRunsFaultFree
    /\ PlannedAtFloor
    /\ \A n \in 1..MaxRuns :
          /\ runs[n].result.passed
          /\ ~ runs[n].result.aborted
          /\ Len(runs[n].result.verification_details) = 2

\* ---------------------------------------------------------------------- C31
\* abort was requested during the running (or last) operation
AbortRequested == hist.abort_at.requested

\* the polls of the batch loop so far
PollCount == Cardinality({k \in 1..Len(hist.log) : hist.log[k].step = "poll"})

\* a batch is being processed: its poll has passed, its second read is not done
InUnit == pc \in {"write", "read1", "read2"}

\* the entries of the manifest phase: files to hash, or entries to verify
ManifestUnits ==
    IF HasEvent("build_manifest") THEN Len(sweep.all_files) ELSE Len(sweep.entries)

\* a step taken while a batch is in flight and abort_check() would return True:
\* the batch goes on as it would without the request
UnitGoesOn ==
    (InUnit /\ abort_requested /\ pc' # pc)
    => /\ ~ cycle_result'.aborted
       /\ pc = "write" => pc' \in {"read1", "cleanup"}
       /\ pc = "read1" => pc' \in {"read2", "cleanup"}
       /\ pc = "read2" => pc' \in {"poll", "cleanup"}
       /\ (pc' = "cleanup" /\ batch_i' = batch_i) => ~ cycle_result'.passed

\* a poll that finds the request ends the operation there
PollHonoursRequest ==
    /\ (pc = "poll" /\ abort_requested /\ pc' # pc)
       => /\ cycle_result'.aborted
          /\ pc' = "cleanup"
          /\ batch_i' = batch_i
    /\ (pc \in {"build", "verify"} /\ abort_requested /\ sweep.idx < ManifestUnits
        /\ pc' # pc)
       => /\ sweep_result'.aborted
          /\ pc' = "returned"
          /\ sweep' = sweep

\* a UI operation starts with the flag cleared
UiStartClearsRequest == (caller = "none" /\ caller' = "ui") => ~ abort_requested'

\* C31: cancellation is cooperative and observed only at unit boundaries: a
\* batch in flight when abort is requested runs to completion, no batch or file
\* not yet begun at the request is begun after it, and the operation returns
\* aborted at the next poll provided a further unit remains; an abort request
\* made during one UI operation is cleared before the next operation starts
\* and never cancels it.
C31_CooperativeCancellation ==
    /\ [](AbortRequested
          => /\ \A k \in 1..Len(hist.log) :
                   hist.log[k].step \in {"write", "read1", "read2"}
                   => hist.log[k].batch < hist.abort_at.batches
             /\ PollCount <= hist.abort_at.batches + 1
             /\ sweep.idx = hist.abort_at.files
             /\ (PollCount > hist.abort_at.batches /\ pc # "poll")
                => cycle_result.aborted
             /\ (pc = "returned" /\ hist.op = "full_sweep"
                 /\ hist.abort_at.files < ManifestUnits)
                => sweep_result.aborted)
    /\ []((hist.caller = "ui"
           /\ (cycle_result.aborted \/ sweep_result.aborted \/ abort_requested))
          => AbortRequested)
    /\ []((hist.caller = "ui" /\ pc = "idle") => ~ abort_requested)
    /\ [][UnitGoesOn /\ PollHonoursRequest /\ UiStartClearsRequest]_vars

\* abort was clicked while the first of two batches was in flight: the batch
\* was completed, the next poll ended the check, the handler cleared the flag
C31_Witness ==
    /\ hist.caller = "ui"
    /\ pc = "idle"
    /\ AbortRequested
    /\ hist.abort_at.batches = 1
    /\ cycle_result.aborted
    /\ Len(cycle_result.verification_details) = 1
    /\ Len(batch_sizes) = 2
    /\ ~ abort_requested

\* ---------------------------------------------------------------------- C32
\* the records of the calls made so far, each with the size its batch was
\* planned with and the engine that planned it
PlannedRecords ==
    UNION {{[engine |-> runs[n].op,
             run |-> n,
             batch |-> runs[n].verification_details[k].batch,
             size |-> runs[n].batch_sizes[runs[n].verification_details[k].batch],
             expected_hash |-> runs[n].verification_details[k].expected_hash] :
               k \in 1..Len(runs[n].verification_details)} : n \in 1..Len(runs)}

\* C32 as stated: expected_hash is a pure function of the batch index: two
\* batches with the same index have the same expected_hash, in any run and in
\* both quick_check and free_space_sweep.
C32_HashByIndexOnly ==
    \A r1, r2 \in PlannedRecords :
        r1.batch = r2.batch => r1.expected_hash = r2.expected_hash

\* C32, amended: expected_hash is a pure function of the batch index and the
\* batch size: two batches with the same index and the same size have the same
\* expected_hash, in any run and in both engines, and two batches of one index
\* and different sizes do not.
C32_HashByIndexAndSize ==
    \A r1, r2 \in PlannedRecords :
        r1.batch = r2.batch
        => (r1.expected_hash = r2.expected_hash <=> r1.size = r2.size)

\* quick_check and then free_space_sweep each verified a first batch of the
\* same size
C32_Witness ==
    \E r1, r2 \in PlannedRecords :
        /\ r1.run # r2.run
        /\ r1.engine = "quick_check"
        /\ r2.engine = "free_space_sweep"
        /\ r1.batch = r2.batch
        /\ r1.size = r2.size
        /\ r1.expected_hash = r2.expected_hash

\* ---------------------------------------------------------------------- C33
\* the sweep found a manifest it could load
ManifestFound == hist.op = "full_sweep" /\ hist.manifest0.exists

\* a file recorded in that manifest no longer has the recorded content
ModifiedSinceBuild ==
    \E k \in 1..Len(hist.manifest0.entries) :
        files[hist.manifest0.entries[k].path] # hist.manifest0.entries[k].hash

\* the stored manifest is rewritten only by a sweep that found none, and a
\* sweep that found one takes the verify path
ManifestWrittenOnce ==
    /\ (ManifestFound /\ pc # "fs_entry") => HasEvent("verify_manifest")
    /\ HasEvent("verify_manifest") => manifest_store = hist.manifest0
    /\ (hist.op # "none" /\ manifest_store # hist.manifest0)
       => /\ ~ hist.manifest0.exists
          /\ hist.op = "full_sweep"
          /\ HasEvent("build_manifest")
          /\ sweep.idx = Len(sweep.all_files)
          /\ manifest_store = [exists |-> TRUE, entries |-> sweep.m]

\* C33 as stated: once a manifest exists it is never rewritten: a sweep on the
\* verify path leaves the stored manifest unchanged whatever the outcome,
\* save_manifest runs only in a sweep that found no loadable manifest, and a
\* file modified after the build makes every later sweep fail.
C33_NeverRewrittenAlwaysFails ==
    /\ ManifestWrittenOnce
    /\ (ManifestFound /\ ModifiedSinceBuild /\ pc = "returned")
       => /\ ~ sweep_result.passed
          /\ sweep_result.message = "Full sweep failed"

\* C33, amended: as above, and a file modified after the build makes every
\* later sweep that is not aborted fail; no later sweep writes the timestamp.
C33_NeverRewritten ==
    /\ ManifestWrittenOnce
    /\ (ManifestFound /\ ModifiedSinceBuild /\ pc = "returned")
       => /\ ~ sweep_result.aborted
             => /\ ~ sweep_result.passed
                /\ sweep_result.message = "Full sweep failed"
                /\ ~ sweep_result.manifest_passed
          /\ hist.marker_writes = 0
          /\ marker = hist.marker0

\* photo.jpg was edited after the manifest was built: the sweep verified every
\* entry, failed, and left the manifest as it was
C33_Witness ==
    /\ ManifestFound
    /\ pc = "returned"
    /\ files["photo.jpg"] = "H2"
    /\ files["notes.txt"] = "H1"
    /\ ~ sweep_result.aborted
    /\ ~ sweep_result.passed
    /\ Len(sweep_result.vd_manifest) = Len(hist.manifest0.entries)
    /\ manifest_store = hist.manifest0

\* ---------------------------------------------------------------------- C34
\* verify_manifest has been called on the manifest just built
VerifyCalled == hist.op = "build_manifest" /\ HasEvent("verify_manifest")

VerifyReturned == VerifyCalled /\ pc = "returned"

\* the records with match False
UnmatchedRecords == {k \in 1..Len(sweep.manifest_vd) : ~ sweep.manifest_vd[k].match}

\* a file that is on the drive and not in the manifest
Unrecorded(p) ==
    /\ files[p] # "absent"
    /\ \A k \in 1..Len(sweep.entries) : sweep.entries[k].path # p

\* what the entry's file holds decides its record
RecordOfEntry(k) ==
    LET e == sweep.entries[k]
        r == sweep.manifest_vd[k]
    IN  /\ r.path = e.path
        /\ r.expected_hash = e.hash
        /\ r.match => files[e.path] = e.hash
        /\ files[e.path] = "absent" <=> r.note = "missing"

\* C34: verify_manifest examines only the paths recorded in the manifest: a
\* file of the drive that is not in the manifest never appears in the records
\* or the mismatch list and never makes the verification fail; the number of
\* records of a non-aborted verify equals the number of manifest entries; an
\* empty manifest verifies as passed.
C34_OnlyManifestPaths ==
    VerifyCalled
    => /\ Len(sweep.manifest_vd) = sweep.idx
       /\ sweep.idx <= Len(sweep.entries)
       /\ \A k \in 1..Len(sweep.manifest_vd) : RecordOfEntry(k)
       /\ Len(sweep.mismatches) = Cardinality(UnmatchedRecords)
       /\ {sweep.mismatches[j] : j \in 1..Len(sweep.mismatches)}
              = {MismatchText(sweep.manifest_vd[k]) : k \in UnmatchedRecords}
       /\ VerifyReturned
          => /\ sweep_result.vd_manifest = sweep.manifest_vd
             /\ sweep_result.manifest_passed <=> UnmatchedRecords = {}
             /\ ~ sweep_result.aborted
                => Len(sweep_result.vd_manifest) = Len(sweep.entries)
             /\ sweep.entries = <<>>
                => /\ sweep_result.manifest_passed
                   /\ ~ sweep_result.aborted
                   /\ sweep_result.vd_manifest = <<>>

\* photo.jpg was put on the card after the manifest was built: the verify ran
\* over the one recorded file and passed
C34_Witness ==
    /\ VerifyReturned
    /\ HasFileChange
    /\ Unrecorded("photo.jpg")
    /\ Unrecorded("Sentinel.txt")
    /\ ~ sweep_result.aborted
    /\ sweep_result.manifest_passed
    /\ Len(sweep_result.vd_manifest) = 1
    /\ sweep.mismatches = <<>>

\* a card with no file: the manifest built is empty and verifies as passed
C34_EmptyManifestVerified ==
    /\ VerifyReturned
    /\ sweep.entries = <<>>
    /\ sweep_result.manifest_passed

\* ---------------------------------------------------------------------- C35
\* full_sweep has returned a result
FullSweepResult == hist.op = "full_sweep" /\ pc = "returned"

\* verify_manifest ran over every entry and found a mismatch
CompletedVerifyMismatch ==
    /\ HasEvent("verify_manifest")
    /\ Len(sweep.manifest_vd) = Len(sweep.entries)
    /\ \E k \in 1..Len(sweep.manifest_vd) : ~ sweep.manifest_vd[k].match

\* free_space_sweep returned a result that is neither aborted nor passed
FreeSpaceFailed ==
    /\ HasEvent("free_space")
    /\ ~ cycle_result.aborted
    /\ ~ cycle_result.passed

\* C35: every result of full_sweep with aborted=True has passed=True and
\* message "Full sweep aborted", whatever was observed before the abort
\* (including manifest_passed=False); passed=False is returned iff the sweep
\* was not aborted and either a completed manifest verification found a
\* mismatch or the free-space phase failed, and then exactly one of
\* manifest_passed, free_space_passed is False.
C35_AbortedKeepsPassed ==
    FullSweepResult
    => /\ sweep_result.aborted
          => /\ sweep_result.passed
             /\ sweep_result.message = "Full sweep aborted"
       /\ ~ sweep_result.passed
          <=> /\ ~ sweep_result.aborted
              /\ CompletedVerifyMismatch \/ FreeSpaceFailed
       /\ ~ sweep_result.passed
          => /\ sweep_result.message = "Full sweep failed"
             /\ sweep_result.manifest_passed # sweep_result.free_space_passed
             /\ ~ sweep_result.manifest_passed <=> CompletedVerifyMismatch
             /\ ~ sweep_result.free_space_passed <=> FreeSpaceFailed

\* abort came after verify_manifest had recorded a bad entry: the result is
\* aborted, passed, with manifest_passed False
C35_Witness ==
    /\ FullSweepResult
    /\ sweep_result.aborted
    /\ sweep_result.passed
    /\ ~ sweep_result.manifest_passed
    /\ \E k \in 1..Len(sweep_result.vd_manifest) : ~ sweep_result.vd_manifest[k].match

\* ---------------------------------------------------------------------- C36
\* abort was requested when the poll of every planned batch had already passed
AbortAfterLastPoll ==
    /\ AbortRequested
    /\ batch_sizes # <<>>
    /\ hist.abort_at.batches = Len(batch_sizes)

\* every planned batch was written and read twice with matching hashes
AllBatchesMatched ==
    /\ Len(cycle_result.verification_details) = Len(batch_sizes)
    /\ \A k \in 1..Len(batch_sizes) : cycle_result.verification_details[k].match

\* C36: an aborted quick_check or free_space_sweep result always has
\* batches_completed < batches_total and bytes_tested < bytes_total, and has
\* passed=True even when batches_completed = 0 (confidence 0); a cancellation
\* signaled only after the last batch's poll is never observed, and the
\* operation then returns the ordinary non-aborted pass result.
C36_AbortedIsPartial ==
    EngineReturned
    => /\ cycle_result.aborted
          => /\ cycle_result.batches_completed < cycle_result.batches_total
             /\ cycle_result.bytes_tested < cycle_result.bytes_total
             /\ cycle_result.passed
             /\ cycle_result.batches_total = Len(batch_sizes)
             /\ cycle_result.bytes_total = size_bytes
             /\ cycle_result.batches_completed = 0
                => /\ cycle_result.bytes_tested = 0
                   /\ cycle_result.extrapolated_confidence_pct = 0
                   /\ cycle_result.verification_details = <<>>
       /\ AbortAfterLastPoll
          => /\ ~ cycle_result.aborted
             /\ AllBatchesMatched
                => cycle_result = PlainResult(TRUE, PassMessage(Engine),
                                              cycle_result.details,
                                              cycle_result.verification_details)

\* abort was requested while the last of two batches was in flight: the result
\* is the pass result of a run nobody cancelled
C36_Witness ==
    /\ EngineReturned
    /\ AbortAfterLastPoll
    /\ Len(batch_sizes) = 2
    /\ AllBatchesMatched
    /\ cycle_result.passed
    /\ ~ cycle_result.aborted

\* abort found by the first poll: nothing tested, passed, confidence 0
C36_AbortedAtFirstPoll ==
    /\ EngineReturned
    /\ cycle_result.aborted
    /\ cycle_result.batches_completed = 0
    /\ cycle_result.passed

\* ---------------------------------------------------------------------- C37
\* the records are those of the first batches of the plan, in order, and all
\* but the last one matched
PrefixOfPlan(vd) ==
    /\ Len(vd) <= Len(batch_sizes)
    /\ \A k \in 1..Len(vd) :
          /\ vd[k].batch = k
          /\ vd[k].expected_hash = ExpectedHash(k - 1, batch_sizes[k])
          /\ k < Len(vd) => vd[k].match

\* C37: in every result of quick_check and free_space_sweep the record list is
\* a prefix of the planned batches in order (record i has batch = i + 1), has
\* at most one record per batch, and only its last record can have
\* match=False; a record with match=False appears only in a result with
\* passed=False.
C37_RecordsPrefixOfPlan ==
    /\ EngineEntered => PrefixOfPlan(verification_details)
    /\ EngineReturned
       => /\ PrefixOfPlan(cycle_result.verification_details)
          /\ \A j, k \in 1..Len(cycle_result.verification_details) :
                cycle_result.verification_details[j].batch
                    = cycle_result.verification_details[k].batch => j = k
          /\ (\E k \in 1..Len(cycle_result.verification_details) :
                  ~ cycle_result.verification_details[k].match)
             => /\ ~ cycle_result.passed
                /\ ~ cycle_result.aborted

\* the second of the planned batches did not read back as written: two
\* records, the last with match False, in a failed result
C37_Witness ==
    /\ EngineReturned
    /\ Len(cycle_result.verification_details) = 2
    /\ cycle_result.verification_details[1].match
    /\ ~ cycle_result.verification_details[2].match
    /\ ~ cycle_result.passed
    /\ Len(batch_sizes) > 2

\* ---------------------------------------------------------------------- C38
\* the positions inside quick_check and free_space_sweep
EnginePcs == {"qc_entry", "fsw_entry", "poll", "write", "read1", "read2", "cleanup"}

\* the indexes i of the files test_<i>.bin the call may write
PlannedIndexes == 0..(Len(batch_sizes) - 1)

\* what a step of an engine may do to the drive and to the host's records
EngineStepFrame ==
    pc \in EnginePcs
    => /\ files' = files
       /\ marker' = marker
       /\ manifest_store' = manifest_store
       /\ config' = config
       /\ test_files' # test_files
          => \/ /\ pc = "write"
                /\ test_files' = test_files \cup {batch_i}
             \/ /\ pc = "cleanup"
                /\ test_files' \subseteq test_files
       /\ temp_dir' # temp_dir
          => \/ pc \in {"qc_entry", "fsw_entry"} /\ temp_dir'
             \/ pc = "cleanup" /\ ~ temp_dir'

\* C38: quick_check and free_space_sweep change nothing but their own
\* temporary directory: they create, write and delete only files named
\* test_<i>.bin inside the directory they created, never modify or delete a
\* pre-existing file of the drive, and quick_check never changes the stored
\* manifest or either last-sweep timestamp.
C38_OnlyOwnTempDir ==
    /\ [](/\ test_files \subseteq PlannedIndexes
          /\ test_files # {} => temp_dir
          /\ (hist.op = "quick_check" /\ caller # "none")
             => /\ marker = hist.marker0
                /\ manifest_store = hist.manifest0
                /\ config = hist.config0)
    /\ [][EngineStepFrame]_vars

\* a quick check of two batches on a card with a marker and a stored manifest
\* has written both test files, removed them and its directory, and returned
C38_Witness ==
    /\ hist.op = "quick_check"
    /\ pc = "returned"
    /\ HasEvent("cleanup_done")
    /\ Count("write", 0) = 1
    /\ Count("write", 1) = 1
    /\ test_files = {}
    /\ ~ temp_dir
    /\ marker.present
    /\ manifest_store.exists
    /\ files["photo.jpg"] = "H2"

\* ---------------------------------------------------------------------- C39
\* the passes of the finally block logged so far
CleanupPasses ==
    {k \in 1..Len(hist.log) : hist.log[k].step \in {"cleanup_done", "cleanup_oserror"}}

\* the finally block runs: one pass, which cannot change the result
CleanupStep ==
    (pc = "cleanup" /\ pc' # pc)
    => /\ cycle_result' = cycle_result
       /\ verification_details' = verification_details
       /\ pc' = ReturnPc
       /\ Len(hist'.log) = Len(hist.log) + 1
       /\ test_files' \subseteq test_files
       /\ IF hist'.log[Len(hist'.log)].step = "cleanup_done"
          THEN test_files' = {} /\ ~ temp_dir'
          ELSE /\ hist'.log[Len(hist'.log)].step = "cleanup_oserror"
               /\ temp_dir'

\* C39: the cleanup of quick_check and free_space_sweep is a single
\* best-effort pass that stops at the first deletion error: when deleting a
\* test file fails, the files not yet deleted and the temporary directory
\* itself are left on the drive, and the returned result is the same as if
\* cleanup had succeeded.
C39_BestEffortCleanup ==
    /\ []((EngineReturned /\ HasEvent("mkdir"))
          => /\ Cardinality(CleanupPasses) = 1
             /\ HasEvent("cleanup_oserror") => temp_dir
             /\ test_files # {} => temp_dir /\ HasEvent("cleanup_oserror")
             /\ HasEvent("cleanup_done") => (test_files = {} /\ ~ temp_dir))
    /\ []((EngineEntered /\ ~ EngineReturned) => CleanupPasses = {})
    /\ [][CleanupStep]_vars

\* two batches verified, the first test file deleted, the deletion of the
\* second failed: it and the directory stay, and the result is the pass result
C39_Witness ==
    /\ EngineReturned
    /\ HasEvent("cleanup_oserror")
    /\ test_files = {1}
    /\ temp_dir
    /\ cycle_result.passed
    /\ ~ cycle_result.aborted
    /\ Len(cycle_result.verification_details) = 2

====
